---- MODULE Spec2Model ----
(***************************************************************************)
(* Session synchronisation of the flashcards-srs application.              *)
(*                                                                         *)
(* Server side: app/api/session-progress/route.ts (GET and POST handlers   *)
(* over one stored JSON object per session code).                          *)
(* Client side: app/dashboard/page.tsx (nextSchedule, progressFromHistory,*)
(* buildReviewQueue and the Dashboard component).                          *)
(*                                                                         *)
(* One session code is modelled: objects of different codes are            *)
(* independent files of the bucket (pathForCode).                          *)
(***************************************************************************)
EXTENDS Integers, Sequences, FiniteSets, TLC

(***************************************************************************)
(* Bounds of the model.                                                    *)
(***************************************************************************)
\* The retention cap of a history.  The source keeps 5000 events
\* (slice(-5000)); the model keeps the same code with a cap that small
\* histories can exceed.
HistoryCap == 3
\* Date.now() takes the values 1..MaxClock.
MaxClock == 2
\* Longest history array of a request body sent to the server.
MaxBodyLen == 1
\* Longest history in the checks of mergeHistory and of merge(S, S).
MaxLen == 2
\* Longest history in the checks of replay.
MaxReplayLen == 3
\* Longest history of a snapshot in the associativity check.
MaxSnapLen == 1
\* Largest updatedAt of a snapshot in the algebraic checks of merge.
MaxSnapUpdatedAt == 1
\* Longest run of nextSchedule steps applied to one card state.
MaxSchedSteps == 4
\* Longest history array of the body of the single request of SpecFetch.
MaxFetchLen == 3
\* Number of grades a client gives.
MaxGrades == 1
\* Largest number of cards in the array given to buildReviewQueue.
MaxQueueCards == 3
\* Longest history given to buildReviewQueue.
MaxQueueLen == 2
\* Longest history of one card replayed from the identity state.
MaxIntervalSteps == 5
\* Largest number of events of the card in each of the two replayed histories
\* whose rows are ranked.
MaxRankReps == 101
\* Largest number of events after the run of other events that fills the
\* lookback of buildReviewQueue.
MaxLookbackLen == 2
\* Longest history array of the body of the single request of SpecIntake,
\* longer than HistoryCap.
MaxIntakeLen == 4

(***************************************************************************)
(* Program constants.                                                      *)
(***************************************************************************)
DAY_MS == 86400000
\* The number of last events buildReviewQueue looks at.
QueueLookback == 500
Grades == {"bad", "mid", "good"}
Cards == {"c1", "c2"}
Procs == {1, 2}
\* The dashboards open on the session code; the POST of client c is procs[c].
Clients == {1, 2}
\* The client whose user grades; the other one only follows the session.
Graders == {1}
\* The grades the user gives.
ClientGrades == {"good"}

(***************************************************************************)
(* Generic helpers on sequences.                                           *)
(***************************************************************************)
Range(s) == {s[i] : i \in 1..Len(s)}

Max2(a, b) == IF a >= b THEN a ELSE b

Min2(a, b) == IF a <= b THEN a ELSE b

\* Array.prototype.slice(-n): the last n elements (all when shorter).
SliceLast(s, n) == IF Len(s) <= n THEN s ELSE SubSeq(s, Len(s) - n + 1, Len(s))

SeqsUpTo(S, n) == UNION {[1..k -> S] : k \in 0..n}

Count(s, e) == Cardinality({i \in 1..Len(s) : s[i] = e})

NoDup(s) == \A i, j \in 1..Len(s) : s[i] = s[j] => i = j

(***************************************************************************)
(* Events and progress rows.                                               *)
(*   event: [ts, cardId, grade]                                            *)
(*   row:   [reps, ease, interval, due, goodStreak]; ease is the exact     *)
(*          rational <<numerator, denominator>> in lowest terms.           *)
(***************************************************************************)
Ev(ts, cardId, grade) == [ts |-> ts, cardId |-> cardId, grade |-> grade]

Row(reps, ease, interval, due, goodStreak) ==
  [reps |-> reps, ease |-> ease, interval |-> interval, due |-> due,
   goodStreak |-> goodStreak]

EmptyMap == [id \in {} |-> 0]

EmptySnapshot == [progress |-> EmptyMap, history |-> <<>>, updatedAt |-> 0]

RECURSIVE Gcd(_, _)
Gcd(a, b) == IF b = 0 THEN a ELSE Gcd(b, a % b)

Reduce(n, d) == <<n \div Gcd(n, d), d \div Gcd(n, d)>>

\* e < 6/5 for a rational e = <<num, den>> of positive integers, that is
\* 5 * num < 6 * den, written without the product 5 * num.
BelowMinEase(e) == e[1] < (6 * e[2] + 4) \div 5

\* Variant: the upper clamp Math.min(3, ease) is missing.
ClampEase_NoUpper(e) ==
  IF BelowMinEase(e) THEN <<6, 5>> ELSE Reduce(e[1], e[2])

\* Math.max(1.2, Math.min(3, ease)) on exact rationals.
ClampEase(e) ==
  IF BelowMinEase(e) THEN <<6, 5>>
  ELSE IF e[1] > 3 * e[2] THEN <<3, 1>>
  ELSE Reduce(e[1], e[2])

(***************************************************************************)
(* route.ts: sanitizers.                                                   *)
(***************************************************************************)
\* The filter of sanitizeHistory: ts is a number, cardId a string (both
\* always so in the model) and grade is one of the three grades.
IsEvent(item) == item.grade \in Grades

\* sanitizeHistory: filter, then slice(-5000).
sanitizeHistory(value) == SliceLast(SelectSeq(value, IsEvent), HistoryCap)

\* A number of a request body is the rational <<numerator, denominator>>
\* with a positive denominator, or a value that is not finite (NaN,
\* Infinity, -Infinity), written with the denominator 0.
Num(n) == <<n, 1>>

\* Number.isFinite.
IsFinite(n) == n[2] /= 0

\* Math.floor of a finite number.
Floor(n) == n[1] \div n[2]

\* Variant: the fields are floored and not raised to 0.
sanitizeRow_NoLowerBound(row) ==
  Row(Floor(row.reps), ClampEase(row.ease), Floor(row.interval),
      Floor(row.due), Floor(row.goodStreak))

\* sanitizeProgress, lines 73-79: the row written for a card, every field
\* floored and raised to 0, the ease clamped.
sanitizeRow(row) ==
  Row(Max2(0, Floor(row.reps)), ClampEase(row.ease), Max2(0, Floor(row.interval)),
      Max2(0, Floor(row.due)), Max2(0, Floor(row.goodStreak)))

\* sanitizeProgress, line 71: the five numbers of the row are finite.
AllFinite(row) ==
  \A n \in {row.reps, row.ease, row.interval, row.due, row.goodStreak} : IsFinite(n)

\* sanitizeProgress: a row with a number that is not finite is skipped, every
\* other row is floored and clamped.
sanitizeProgress(value) ==
  [id \in {i \in DOMAIN value : AllFinite(value[i])} |-> sanitizeRow(value[id])]

\* JSON.parse of a stored progress object: the integers reps, interval, due
\* and goodStreak written by JSON.stringify are read as numbers.
JsonParse(progress) ==
  [id \in DOMAIN progress |->
     Row(Num(progress[id].reps), progress[id].ease, Num(progress[id].interval),
         Num(progress[id].due), Num(progress[id].goodStreak))]

\* normalizeUpdatedAt: non-positive values become 0.
normalizeUpdatedAt(value) == IF value <= 0 THEN 0 ELSE value

sanitizeStoredPayload(value) ==
  [progress |-> sanitizeProgress(JsonParse(value.progress)),
   history |-> sanitizeHistory(value.history),
   updatedAt |-> normalizeUpdatedAt(value.updatedAt)]

(***************************************************************************)
(* route.ts: latestEventByCard, mergeHistory, progressRank, mergeProgress. *)
(***************************************************************************)
RECURSIVE SetMax(_)
SetMax(S) ==
  IF S = {} THEN 0
  ELSE LET x == CHOOSE y \in S : TRUE IN Max2(x, SetMax(S \ {x}))

\* Variant: no history has an event for any card.
latestEventByCard_None(events, id) == 0

\* latestEventByCard(events).get(id) ?? 0
latestEventByCard(events, id) ==
  SetMax({events[i].ts : i \in {j \in 1..Len(events) : events[j].cardId = id}})

\* The Map of mergeHistory keeps one entry per key `${ts}|${cardId}|${grade}`
\* at the position of the key's first insertion.
EventKey(e) == <<e.ts, e.cardId, e.grade>>

RECURSIVE MapValues(_, _)
MapValues(all, acc) ==
  IF all = <<>> THEN acc
  ELSE IF \E i \in 1..Len(acc) : EventKey(acc[i]) = EventKey(Head(all))
       THEN MapValues(Tail(all), acc)
       ELSE MapValues(Tail(all), Append(acc, Head(all)))

\* Insertion of e after every element whose ts is <= e.ts: a stable sort.
RECURSIVE InsertByTs(_, _)
InsertByTs(sorted, e) ==
  IF sorted = <<>> THEN <<e>>
  ELSE IF Head(sorted).ts <= e.ts
       THEN <<Head(sorted)>> \o InsertByTs(Tail(sorted), e)
       ELSE <<e>> \o sorted

\* Variant: the comparator is reversed (b.ts - a.ts).
RECURSIVE SortByTs_Desc(_)
SortByTs_Desc(s) ==
  IF s = <<>> THEN <<>>
  ELSE LET rest == SortByTs_Desc(SubSeq(s, 1, Len(s) - 1))
           e == s[Len(s)]
           k == Cardinality({i \in 1..Len(rest) : rest[i].ts >= e.ts})
       IN  SubSeq(rest, 1, k) \o <<e>> \o SubSeq(rest, k + 1, Len(rest))

\* Array.prototype.sort((a, b) => a.ts - b.ts), which is stable.
RECURSIVE SortByTs(_)
SortByTs(s) ==
  IF s = <<>> THEN <<>>
  ELSE InsertByTs(SortByTs(SubSeq(s, 1, Len(s) - 1)), s[Len(s)])

\* Variant: the events are not de-duplicated by key.
mergeHistory_NoDedup(remote, incoming) ==
  SliceLast(SortByTs(remote \o incoming), HistoryCap)

mergeHistory(remote, incoming) ==
  SliceLast(SortByTs(MapValues(remote \o incoming, <<>>)), HistoryCap)

\* Variant: the rank is the interval alone.
progressRank_IntervalOnly(row) == row.interval

progressRank(row) == row.reps * 100000 + row.goodStreak * 1000 + row.interval

\* The side whose row mergeProgress writes for id: "incoming", "remote", or
\* "none" when the loop continues without writing out[id].
MergeSide(remote, incoming, remoteHistory, incomingHistory, remoteUpdatedAt, incomingUpdatedAt, id) ==
  LET hasRemote == id \in DOMAIN remote
      hasIncoming == id \in DOMAIN incoming
      remoteTs == latestEventByCard(remoteHistory, id)
      incomingTs == latestEventByCard(incomingHistory, id)
  IN  IF incomingTs > remoteTs
        THEN (IF hasIncoming THEN "incoming" ELSE "none")
      ELSE IF remoteTs > incomingTs
        THEN (IF hasRemote THEN "remote" ELSE "none")
      ELSE IF hasRemote /\ ~hasIncoming THEN "remote"
      ELSE IF hasIncoming /\ ~hasRemote THEN "incoming"
      ELSE IF ~hasRemote \/ ~hasIncoming THEN "none"
      ELSE IF progressRank(incoming[id]) > progressRank(remote[id])
        THEN "incoming"
      ELSE IF progressRank(remote[id]) > progressRank(incoming[id])
        THEN "remote"
      ELSE IF incomingUpdatedAt >= remoteUpdatedAt THEN "incoming"
      ELSE "remote"

mergeProgress(remote, incoming, remoteHistory, incomingHistory, remoteUpdatedAt, incomingUpdatedAt) ==
  LET ids == DOMAIN remote \cup DOMAIN incoming
      side(id) == MergeSide(remote, incoming, remoteHistory, incomingHistory,
                            remoteUpdatedAt, incomingUpdatedAt, id)
  IN  [id \in {i \in ids : side(i) /= "none"} |->
         IF side(id) = "incoming" THEN incoming[id] ELSE remote[id]]

\* Variant: the stored updatedAt is left out of the maximum.
Merge_IncomingUpdatedAt(remotePayload, incomingPayload) ==
  LET mergedHistory == mergeHistory(remotePayload.history, incomingPayload.history)
      mergedProgress ==
        mergeProgress(remotePayload.progress, incomingPayload.progress,
                      remotePayload.history, incomingPayload.history,
                      remotePayload.updatedAt, incomingPayload.updatedAt)
      latestEventTs ==
        IF Len(mergedHistory) > 0 THEN mergedHistory[Len(mergedHistory)].ts ELSE 0
  IN  [progress |-> mergedProgress,
       history |-> mergedHistory,
       updatedAt |-> Max2(incomingPayload.updatedAt, latestEventTs)]

\* Variant: latestEventTs is read from the first event of the merged history.
Merge_FirstEventTs(remotePayload, incomingPayload) ==
  LET mergedHistory == mergeHistory(remotePayload.history, incomingPayload.history)
      mergedProgress ==
        mergeProgress(remotePayload.progress, incomingPayload.progress,
                      remotePayload.history, incomingPayload.history,
                      remotePayload.updatedAt, incomingPayload.updatedAt)
      latestEventTs == IF Len(mergedHistory) > 0 THEN mergedHistory[1].ts ELSE 0
  IN  [progress |-> mergedProgress,
       history |-> mergedHistory,
       updatedAt |-> Max2(Max2(remotePayload.updatedAt, incomingPayload.updatedAt),
                          latestEventTs)]

\* POST, lines 310-325: the snapshot written for a non-reset submit.
Merge(remotePayload, incomingPayload) ==
  LET mergedHistory == mergeHistory(remotePayload.history, incomingPayload.history)
      mergedProgress ==
        mergeProgress(remotePayload.progress, incomingPayload.progress,
                      remotePayload.history, incomingPayload.history,
                      remotePayload.updatedAt, incomingPayload.updatedAt)
      latestEventTs ==
        IF Len(mergedHistory) > 0 THEN mergedHistory[Len(mergedHistory)].ts ELSE 0
  IN  [progress |-> mergedProgress,
       history |-> mergedHistory,
       updatedAt |-> Max2(Max2(remotePayload.updatedAt, incomingPayload.updatedAt),
                          latestEventTs)]

(***************************************************************************)
(* The server: one stored object, Date.now(), and the POST requests in     *)
(* flight.  A POST suspends at its awaits (download, upload), so other     *)
(* requests run between its steps.                                         *)
(***************************************************************************)
VARIABLES
  store,     \* the object `${code}.json` of the bucket: [exists, raw, data]
  version,   \* number of uploads the object has received
  clock,     \* Date.now()
  procs,     \* procs[p]: the POST request handled by p
  fetched,   \* the response of the GET request
  clients,   \* clients[c]: the dashboard of client c
  quiet,     \* the users have stopped grading and requests no longer fail
  inA, inB, inC, out, phase   \* inputs and results of the algebraic checks

vars == <<store, version, clock, procs, fetched, clients, quiet, inA, inB, inC, out, phase>>

serverVars == <<store, version, clock, procs, fetched>>

clientVars == <<clients, quiet>>

algVars == <<inA, inB, inC, out, phase>>

\* Rows a request body carries for card c1 (already in their domain, or not).
RowA == Row(1, <<54, 25>>, 2, 2, 1)

RowB == Row(1, <<2, 1>>, 2, 5, 1)

RowRaw == Row(Num(0 - 1), <<5, 1>>, Num(0), Num(0 - 3), Num(0))

\* Items of a body's history array; the last one is not a valid event.
BodyItems == {Ev(1, "c1", "good"), Ev(2, "c2", "bad"), Ev(1, "c2", "x")}

BodyHistories == SeqsUpTo(BodyItems, MaxBodyLen)

BodyProgress == {EmptyMap, [id \in {"c1"} |-> RowRaw]}

\* A bulk body {code, progress, history, updatedAt, reset} received at time
\* now: updatedAt is absent (0) or a time up to now.  The bodies with reset
\* set carry a history and no progress.
BulkBodies(now) ==
  [kind : {"bulk"}, progress : BodyProgress, history : BodyHistories,
   updatedAt : 0..now, reset : {FALSE},
   cardId : {""}, grade : {""}, ts : {0}]
  \cup
  [kind : {"bulk"}, progress : {EmptyMap}, history : BodyHistories,
   updatedAt : 0..now, reset : {TRUE},
   cardId : {""}, grade : {""}, ts : {0}]

\* The body of logReviewAction: {code, cardId, grade, ts} and nothing else;
\* ts is the time of the review, up to now.
ActionBodies(now) ==
  [kind : {"action"}, progress : {EmptyMap}, history : {<<>>},
   updatedAt : {0}, reset : {FALSE},
   cardId : {"c1"}, grade : {"good"}, ts : 1..now]

Bodies(now) == BulkBodies(now) \cup ActionBodies(now)

NoBody ==
  [kind |-> "none", progress |-> EmptyMap, history |-> <<>>, updatedAt |-> 0,
   reset |-> FALSE, cardId |-> "", grade |-> "", ts |-> 0]

IdleProc ==
  [pc |-> "idle", body |-> NoBody, incoming |-> EmptySnapshot,
   remote |-> EmptySnapshot, payload |-> EmptySnapshot, status |-> "none",
   began |-> 0, read |-> 0]

\* The answer of the storage without an error.
NoError == [statusCode |-> "200", notFound |-> FALSE, doesNotExist |-> FALSE]

\* The object: absent, or present with a text that is empty ("empty"), is
\* not JSON ("invalid") or is the JSON of data ("json").
NoObject == [exists |-> FALSE, raw |-> "json", data |-> EmptySnapshot]

\* The dashboard before its mount effect has run.
IdleSync ==
  [pc |-> "idle", kind |-> "none", seen |-> 0, remote |-> EmptySnapshot,
   preserve |-> "none"]

InitClient ==
  [mounted |-> FALSE, history |-> <<>>, cards |-> EmptyMap, ids |-> <<>>,
   current |-> "none", lastSyncedAt |-> 0, syncInFlight |-> FALSE,
   sync |-> IdleSync, post |-> "none", body |-> NoBody, grades |-> 0]

InitClients ==
  /\ clients = [c \in Clients |-> InitClient]
  /\ quiet = FALSE

InitServer ==
  /\ store = NoObject
  /\ version = 0
  /\ clock = 1
  /\ procs = [p \in Procs |-> IdleProc]
  /\ fetched = [status |-> "none", data |-> EmptySnapshot, error |-> NoError]

InitAlgIdle ==
  /\ inA = EmptySnapshot
  /\ inB = EmptySnapshot
  /\ inC = EmptySnapshot
  /\ out = <<>>
  /\ phase = "off"

Init == InitServer /\ InitClients /\ InitAlgIdle

\* Time passes.
Tick ==
  /\ clock < MaxClock
  /\ clock' = clock + 1
  /\ UNCHANGED <<store, version, procs, fetched, clientVars, algVars>>

\* POST, lines 256-280: the body is read, the code and the configuration are
\* checked, the bucket is ensured and incomingPayload is built.  The handler
\* reads progress, history, updatedAt and reset of the body and no other field.
\* Variant: updatedAt is always Date.now().
incomingPayload_AlwaysNow(body, now) ==
  [progress |-> sanitizeProgress(body.progress),
   history |-> sanitizeHistory(body.history),
   updatedAt |-> now]

incomingPayload(body, now) ==
  [progress |-> sanitizeProgress(body.progress),
   history |-> sanitizeHistory(body.history),
   updatedAt |-> IF normalizeUpdatedAt(body.updatedAt) /= 0
                 THEN normalizeUpdatedAt(body.updatedAt) ELSE now]

Begun(body, now) ==
  [pc |-> IF body.reset THEN "upload" ELSE "download",
   body |-> body,
   incoming |-> incomingPayload(body, now),
   remote |-> EmptySnapshot,
   payload |-> incomingPayload(body, now),
   status |-> "none",
   began |-> version,
   read |-> version]

PostBeginWith(p, bodies) ==
  /\ procs[p].pc = "idle"
  /\ \E body \in bodies : procs' = [procs EXCEPT ![p] = Begun(body, clock)]
  /\ UNCHANGED <<store, version, clock, fetched, clientVars, algVars>>

PostBegin(p) == PostBeginWith(p, Bodies(clock))

\* POST, lines 260-272: invalid code, missing configuration or bucket error.
PostReject(p) ==
  /\ procs[p].pc = "idle"
  /\ procs' = [procs EXCEPT ![p] = [IdleProc EXCEPT !.pc = "done", !.status = "error"]]
  /\ UNCHANGED <<store, version, clock, fetched, clientVars, algVars>>

\* Variant: only the status 404 is taken for "not found".
isMissingStorageError_StatusOnly(error) == error.statusCode = "404"

\* isMissingStorageError: status 404, or a message with "not found" or
\* "does not exist".  An error is [statusCode, notFound, doesNotExist], the
\* last two telling whether the lower-cased message includes the phrase.
isMissingStorageError(error) ==
  error.statusCode = "404" \/ error.notFound \/ error.doesNotExist

\* The errors the storage answers for an object that does not exist.
MissingErrors ==
  {[statusCode |-> "404", notFound |-> TRUE, doesNotExist |-> FALSE],
   [statusCode |-> "400", notFound |-> TRUE, doesNotExist |-> FALSE],
   [statusCode |-> "404", notFound |-> FALSE, doesNotExist |-> FALSE],
   [statusCode |-> "", notFound |-> FALSE, doesNotExist |-> TRUE]}

\* The errors the storage answers when it is unavailable.
OtherErrors == {[statusCode |-> "500", notFound |-> FALSE, doesNotExist |-> FALSE]}

\* The answers of storage.download for the object as it is now.
DownloadOutcomes ==
  IF store.exists THEN {NoError} \cup OtherErrors ELSE MissingErrors \cup OtherErrors

\* What a download of the object yields after the handling of "not found",
\* of an empty text and of JSON.parse throwing: the sanitized stored payload,
\* or the empty snapshot.
StoredSnapshot ==
  IF store.exists /\ store.raw = "json"
  THEN sanitizeStoredPayload(store.data) ELSE EmptySnapshot

\* POST, lines 282-326: the stored object is downloaded and merged.
PostDownload(p) ==
  /\ procs[p].pc = "download"
  /\ \E error \in DownloadOutcomes : error = NoError \/ isMissingStorageError(error)
  /\ procs' = [procs EXCEPT ![p].pc = "upload",
                            ![p].remote = StoredSnapshot,
                            ![p].payload = Merge(StoredSnapshot, procs[p].incoming),
                            ![p].read = version]
  /\ UNCHANGED <<store, version, clock, fetched, clientVars, algVars>>

\* POST, lines 290-298: a download error that is not "not found".
PostDownloadError(p) ==
  /\ procs[p].pc = "download"
  /\ \E error \in DownloadOutcomes : error /= NoError /\ ~isMissingStorageError(error)
  /\ procs' = [procs EXCEPT ![p] = [IdleProc EXCEPT !.pc = "done", !.status = "error"]]
  /\ UNCHANGED <<store, version, clock, fetched, clientVars, algVars>>

\* POST, lines 328-339: the payload replaces the object (upsert).
PostUpload(p) ==
  /\ procs[p].pc = "upload"
  /\ store' = [exists |-> TRUE, raw |-> "json", data |-> procs[p].payload]
  /\ version' = version + 1
  /\ procs' = [procs EXCEPT ![p].pc = "done", ![p].status = "ok"]
  /\ UNCHANGED <<clock, fetched, clientVars, algVars>>

\* Variant: the failed upload has written the payload.
PostUploadError_Writes(p) ==
  /\ procs[p].pc = "upload"
  /\ store' = [exists |-> TRUE, raw |-> "json", data |-> procs[p].payload]
  /\ procs' = [procs EXCEPT ![p] = [IdleProc EXCEPT !.pc = "done", !.status = "error"]]
  /\ UNCHANGED <<version, clock, fetched, clientVars, algVars>>

\* POST, lines 335-337: the upload fails.
PostUploadError(p) ==
  /\ procs[p].pc = "upload"
  /\ procs' = [procs EXCEPT ![p] = [IdleProc EXCEPT !.pc = "done", !.status = "error"]]
  /\ UNCHANGED <<store, version, clock, fetched, clientVars, algVars>>

\* GET, lines 215-254: the sanitized stored snapshot, or the empty one when
\* the object is missing, its text is empty or JSON.parse throws.
Get ==
  /\ fetched.status = "none"
  /\ \E error \in DownloadOutcomes :
       /\ error = NoError \/ isMissingStorageError(error)
       /\ fetched' = [status |-> "ok", data |-> StoredSnapshot, error |-> error]
  /\ UNCHANGED <<store, version, clock, procs, clientVars, algVars>>

\* GET, lines 229-235: a download error that is not "not found".
GetError ==
  /\ fetched.status = "none"
  /\ \E error \in DownloadOutcomes :
       /\ error /= NoError /\ ~isMissingStorageError(error)
       /\ fetched' = [status |-> "error", data |-> EmptySnapshot, error |-> error]
  /\ UNCHANGED <<store, version, clock, procs, clientVars, algVars>>

Next ==
  \/ Tick
  \/ \E p \in Procs : PostBegin(p)
  \/ \E p \in Procs : PostReject(p)
  \/ \E p \in Procs : PostDownload(p)
  \/ \E p \in Procs : PostDownloadError(p)
  \/ \E p \in Procs : PostUpload(p)
  \/ \E p \in Procs : PostUploadError(p)

Spec == Init /\ [][Next]_vars

\* One POST request and one GET request on an object that is absent, empty,
\* not JSON, or a stored snapshot.
FetchStores ==
  {NoObject,
   [exists |-> TRUE, raw |-> "empty", data |-> EmptySnapshot],
   [exists |-> TRUE, raw |-> "invalid", data |-> EmptySnapshot],
   [exists |-> TRUE, raw |-> "json",
    data |-> [progress |-> EmptyMap, history |-> <<Ev(1, "c2", "mid")>>, updatedAt |-> 1]]}

FetchEvents == {Ev(1, "c1", "good"), Ev(1, "c1", "bad"), Ev(1, "c2", "good"), Ev(2, "c1", "good")}

FetchBodies(now) ==
  [kind : {"bulk"}, progress : BodyProgress,
   history : SeqsUpTo(FetchEvents, MaxFetchLen),
   updatedAt : 0..now, reset : BOOLEAN,
   cardId : {""}, grade : {""}, ts : {0}]

FetchProcs == {1}

InitFetch ==
  /\ store \in FetchStores
  /\ version = 0
  /\ clock = 1
  /\ procs = [p \in Procs |-> IdleProc]
  /\ fetched = [status |-> "none", data |-> EmptySnapshot, error |-> NoError]
  /\ InitClients
  /\ InitAlgIdle

NextFetch ==
  \/ Tick
  \/ \E p \in FetchProcs : PostBeginWith(p, FetchBodies(clock))
  \/ \E p \in FetchProcs : PostReject(p)
  \/ \E p \in FetchProcs : PostDownload(p)
  \/ \E p \in FetchProcs : PostDownloadError(p)
  \/ \E p \in FetchProcs : PostUpload(p)
  \/ \E p \in FetchProcs : PostUploadError(p)
  \/ Get
  \/ GetError

SpecFetch == InitFetch /\ [][NextFetch]_vars

\* One POST request and one GET request where the history array of the body
\* is longer than the cap, is in any order and has, besides three events of
\* a card of the deck, an event with ts 0, an event of "zz", which is the id
\* of no card, and an item whose grade is not a grade.
IntakeItems ==
  {Ev(1, "c1", "good"), Ev(2, "c1", "good"), Ev(3, "c1", "good"),
   Ev(0, "c1", "good"), Ev(1, "zz", "good"), Ev(1, "c1", "x")}

IntakeBodies(now) ==
  [kind : {"bulk"}, progress : {EmptyMap},
   history : SeqsUpTo(IntakeItems, MaxIntakeLen),
   updatedAt : 0..now, reset : BOOLEAN,
   cardId : {""}, grade : {""}, ts : {0}]

IntakeStores == {s \in FetchStores : s.raw = "json"}

InitIntake ==
  /\ store \in IntakeStores
  /\ version = 0
  /\ clock = 1
  /\ procs = [p \in Procs |-> IdleProc]
  /\ fetched = [status |-> "none", data |-> EmptySnapshot, error |-> NoError]
  /\ InitClients
  /\ InitAlgIdle

NextIntake ==
  \/ Tick
  \/ \E p \in FetchProcs : PostBeginWith(p, IntakeBodies(clock))
  \/ \E p \in FetchProcs : PostReject(p)
  \/ \E p \in FetchProcs : PostDownload(p)
  \/ \E p \in FetchProcs : PostDownloadError(p)
  \/ \E p \in FetchProcs : PostUpload(p)
  \/ \E p \in FetchProcs : PostUploadError(p)
  \/ Get
  \/ GetError

SpecIntake == InitIntake /\ [][NextIntake]_vars

\* One POST request and one GET request where the progress
\* object of the body has, for each of two cards, no row or one of four
\* rows: a row in its domain, a row of fractions and negative numbers, a row
\* whose reps is NaN and a row whose ease is Infinity.
RowRawOk == Row(Num(1), <<2, 1>>, Num(2), Num(5), Num(1))

RowRawFraction == Row(<<5, 2>>, <<7, 2>>, <<0 - 1, 2>>, Num(0 - 3), <<3, 2>>)

RowRawNaN == Row(<<0, 0>>, <<2, 1>>, Num(2), Num(5), Num(1))

RowRawInfinity == Row(Num(1), <<1, 0>>, Num(2), Num(5), Num(1))

RawRows == {RowRawOk, RowRawFraction, RowRawNaN, RowRawInfinity}

RawProgress == UNION {[ids -> RawRows] : ids \in SUBSET Cards}

RawBodies(now) ==
  [kind : {"bulk"}, progress : RawProgress,
   history : {<<>>, <<Ev(1, "c1", "good")>>},
   updatedAt : 0..now, reset : BOOLEAN,
   cardId : {""}, grade : {""}, ts : {0}]

\* The object is one of FetchStores or a stored snapshot with a row of c1.
RawStores ==
  FetchStores \cup
  {[exists |-> TRUE, raw |-> "json",
    data |-> [progress |-> [id \in {"c1"} |-> RowB], history |-> <<>>, updatedAt |-> 1]]}

InitRaw ==
  /\ store \in RawStores
  /\ version = 0
  /\ clock = 1
  /\ procs = [p \in Procs |-> IdleProc]
  /\ fetched = [status |-> "none", data |-> EmptySnapshot, error |-> NoError]
  /\ InitClients
  /\ InitAlgIdle

NextRaw ==
  \/ Tick
  \/ \E p \in FetchProcs : PostBeginWith(p, RawBodies(clock))
  \/ \E p \in FetchProcs : PostReject(p)
  \/ \E p \in FetchProcs : PostDownload(p)
  \/ \E p \in FetchProcs : PostDownloadError(p)
  \/ \E p \in FetchProcs : PostUpload(p)
  \/ \E p \in FetchProcs : PostUploadError(p)
  \/ Get
  \/ GetError

SpecRaw == InitRaw /\ [][NextRaw]_vars

(***************************************************************************)
(* page.tsx: the calls of refreshFromRemote of one Dashboard.  The timer,  *)
(* the focus listener and the handlers that force a refresh each call it,  *)
(* whatever the other calls are doing.                                     *)
(*   out.syncInFlight: syncInFlightRef.current                             *)
(*   out.pc[k]: where the call of caller k is ("idle" when it has none)    *)
(*   out.last[k]: how the last call of caller k went                       *)
(***************************************************************************)
RefreshCallers == {"timer", "focus", "forced"}

InitRefresh ==
  /\ InitServer
  /\ InitClients
  /\ inA = EmptySnapshot
  /\ inB = EmptySnapshot
  /\ inC = EmptySnapshot
  /\ out = [syncInFlight |-> FALSE,
            pc |-> [k \in RefreshCallers |-> "idle"],
            last |-> [k \in RefreshCallers |-> "none"]]
  /\ phase = "refresh"

\* Variant: the guard does not read syncInFlightRef.
refreshReturns_NoFlag(hasCode, inFlight) == ~hasCode

\* Line 384: if (!code || syncInFlightRef.current) return.
refreshReturns(hasCode, inFlight) == ~hasCode \/ inFlight

\* The finally block, line 397, and the end of the call.
RefreshEnded(k, how) ==
  [out EXCEPT !.syncInFlight = FALSE, !.pc[k] = "idle", !.last[k] = how]

\* refreshFromRemote, lines 383-388: the guard, then the flag is set and
\* fetchSessionSync is called.  No await separates the test and the set.
RefreshCall(k) ==
  /\ phase = "refresh"
  /\ out.pc[k] = "idle"
  /\ \E hasCode \in BOOLEAN :
       out' = IF refreshReturns(hasCode, out.syncInFlight)
              THEN [out EXCEPT !.last[k] = "returned"]
              ELSE [out EXCEPT !.syncInFlight = TRUE, !.pc[k] = "fetch",
                               !.last[k] = "running"]
  /\ UNCHANGED <<serverVars, clientVars, inA, inB, inC, phase>>

\* Lines 388-393: the fetch answers; applyRemoteSnapshot is called when the
\* refresh is forced or the snapshot is newer, else the call ends.
RefreshFetched(k) ==
  /\ phase = "refresh"
  /\ out.pc[k] = "fetch"
  /\ \E newer \in BOOLEAN :
       out' = IF k = "forced" \/ newer
              THEN [out EXCEPT !.pc[k] = "apply"]
              ELSE RefreshEnded(k, "done")
  /\ UNCHANGED <<serverVars, clientVars, inA, inB, inC, phase>>

\* Lines 394-398: fetchSessionSync throws; catch, then finally.
RefreshFetchThrows(k) ==
  /\ phase = "refresh"
  /\ out.pc[k] = "fetch"
  /\ out' = RefreshEnded(k, "caught")
  /\ UNCHANGED <<serverVars, clientVars, inA, inB, inC, phase>>

\* Lines 392-398: applyRemoteSnapshot returns; finally.
RefreshApplied(k) ==
  /\ phase = "refresh"
  /\ out.pc[k] = "apply"
  /\ out' = RefreshEnded(k, "done")
  /\ UNCHANGED <<serverVars, clientVars, inA, inB, inC, phase>>

\* Lines 392-398: applyRemoteSnapshot throws; catch, then finally.
RefreshApplyThrows(k) ==
  /\ phase = "refresh"
  /\ out.pc[k] = "apply"
  /\ out' = RefreshEnded(k, "caught")
  /\ UNCHANGED <<serverVars, clientVars, inA, inB, inC, phase>>

NextRefresh ==
  \/ \E k \in RefreshCallers : RefreshCall(k)
  \/ \E k \in RefreshCallers : RefreshFetched(k)
  \/ \E k \in RefreshCallers : RefreshFetchThrows(k)
  \/ \E k \in RefreshCallers : RefreshApplied(k)
  \/ \E k \in RefreshCallers : RefreshApplyThrows(k)

\* Every promise a call awaits settles: the fetch answers or throws, and
\* applyRemoteSnapshot returns or throws.
SpecRefresh ==
  /\ InitRefresh
  /\ [][NextRefresh]_vars
  /\ WF_vars(\E k \in RefreshCallers : RefreshFetched(k) \/ RefreshFetchThrows(k))
  /\ WF_vars(\E k \in RefreshCallers : RefreshApplied(k) \/ RefreshApplyThrows(k))

TypeOK ==
  /\ store.exists \in BOOLEAN
  /\ clock \in 1..MaxClock
  /\ \A p \in Procs : procs[p].pc \in {"idle", "download", "upload", "done"}

(***************************************************************************)
(* page.tsx: the schedule engine and the replay of a history.              *)
(***************************************************************************)
dayNumber(ts) == ts \div DAY_MS

defaultProgress == Row(0, <<2, 1>>, 0, 0, 0)

\* { bad: 0.88, mid: 0.96, good: 1.08 }[grade]
easeFactor(grade) ==
  IF grade = "bad" THEN <<22, 25>> ELSE IF grade = "mid" THEN <<24, 25>> ELSE <<27, 25>>

\* Math.round(base * num / 10) for a positive base: halves round up.
RoundTenths(base, num) == (base * num + 5) \div 10

\* Variant: a grade other than good keeps the streak and the interval.
nextSchedule_KeepOnBad(card, grade, reviewedAt) ==
  LET nextEase == ClampEase(<<card.ease[1] * easeFactor(grade)[1],
                              card.ease[2] * easeFactor(grade)[2]>>)
  IN  Row(card.reps + 1, nextEase, card.interval,
          dayNumber(reviewedAt) + card.interval, card.goodStreak)

\* Variant: the long interval is not capped at 365.
nextSchedule_NoCap(card, grade, reviewedAt) ==
  LET baseInterval == Max2(1, IF card.interval = 0 THEN 1 ELSE card.interval)
      nextGoodStreak == IF grade = "good" THEN card.goodStreak + 1 ELSE 0
      nextEase == ClampEase(<<card.ease[1] * easeFactor(grade)[1],
                              card.ease[2] * easeFactor(grade)[2]>>)
      veryLong == Max2(30, RoundTenths(baseInterval, 45))
      nextInterval ==
        IF grade = "bad" THEN 1
        ELSE IF grade = "mid" THEN 1
        ELSE IF nextGoodStreak = 1 THEN Max2(2, RoundTenths(baseInterval, 16))
        ELSE IF nextGoodStreak = 2 THEN Max2(7, RoundTenths(baseInterval, 28))
        ELSE veryLong + (nextGoodStreak - 3) * 30
  IN  Row(card.reps + 1, nextEase, nextInterval,
          dayNumber(reviewedAt) + nextInterval, nextGoodStreak)

nextSchedule(card, grade, reviewedAt) ==
  LET baseInterval == Max2(1, IF card.interval = 0 THEN 1 ELSE card.interval)
      nextGoodStreak == IF grade = "good" THEN card.goodStreak + 1 ELSE 0
      nextEase == ClampEase(<<card.ease[1] * easeFactor(grade)[1],
                              card.ease[2] * easeFactor(grade)[2]>>)
      veryLong == Max2(30, RoundTenths(baseInterval, 45))
      nextInterval ==
        IF grade = "bad" THEN 1
        ELSE IF grade = "mid" THEN 1
        ELSE IF nextGoodStreak = 1 THEN Max2(2, RoundTenths(baseInterval, 16))
        ELSE IF nextGoodStreak = 2 THEN Max2(7, RoundTenths(baseInterval, 28))
        ELSE Min2(365, veryLong + (nextGoodStreak - 3) * 30)
  IN  Row(card.reps + 1, nextEase, nextInterval,
          dayNumber(reviewedAt) + nextInterval, nextGoodStreak)

\* Variant: prev is the state of the card of the event before, whichever
\* card that is.
RECURSIVE ReplayFrom_SharedPrev(_, _)
ReplayFrom_SharedPrev(events, map) ==
  IF events = <<>> THEN map
  ELSE LET event == Head(events)
           prev == IF "last" \in DOMAIN map THEN map["last"] ELSE defaultProgress
           next == nextSchedule(prev, event.grade, event.ts)
       IN  ReplayFrom_SharedPrev(Tail(events),
                                 [id \in DOMAIN map \cup {event.cardId, "last"} |->
                                    IF id \in {event.cardId, "last"} THEN next ELSE map[id]])

\* Variant: every event is applied to defaultProgress().
RECURSIVE ReplayFrom_NoPrev(_, _)
ReplayFrom_NoPrev(events, map) ==
  IF events = <<>> THEN map
  ELSE LET event == Head(events)
           next == nextSchedule(defaultProgress, event.grade, event.ts)
       IN  ReplayFrom_NoPrev(Tail(events),
                             [id \in DOMAIN map \cup {event.cardId} |->
                                IF id = event.cardId THEN next ELSE map[id]])

\* The loop of progressFromHistory, in array order.
RECURSIVE ReplayFrom(_, _)
ReplayFrom(events, map) ==
  IF events = <<>> THEN map
  ELSE LET event == Head(events)
           prev == IF event.cardId \in DOMAIN map THEN map[event.cardId]
                   ELSE defaultProgress
           next == nextSchedule(prev, event.grade, event.ts)
       IN  ReplayFrom(Tail(events),
                      [id \in DOMAIN map \cup {event.cardId} |->
                         IF id = event.cardId THEN next ELSE map[id]])

progressFromHistory(events) == ReplayFrom(events, EmptyMap)

(***************************************************************************)
(* page.tsx: buildReviewQueue.  allCards is the map id -> progress of the   *)
(* loaded cards; the queue is the sequence of their ids.                   *)
(***************************************************************************)
\* The cards of the deck, in the order of question_number.
Catalog == <<"c1">>

\* a.card.id.localeCompare(b.card.id) on the ids of the deck.
IdOrder(id) == CASE id = "c1" -> 1 [] id = "c2" -> 2 [] OTHER -> 3

\* Variant: the loop visits the whole history.
recentLimit_All(events) == Len(events)

\* Math.min(events.length, 500)
recentLimit(events) == Min2(Len(events), QueueLookback)

\* The index of the last event of card id among the recentLimit last events,
\* or 0: the loop visits it first and sets lastGradeByCard and stepsSinceSeen.
LastSeen(events, id) ==
  SetMax({i \in (Len(events) - recentLimit(events) + 1)..Len(events) :
            events[i].cardId = id})

cardScore(card, id, events, today) ==
  LET i == LastSeen(events, id)
      lastGrade == IF i = 0 THEN "none" ELSE events[i].grade
      steps == Len(events) - i
  IN  10
      + (IF card.reps <= 0 THEN 24 ELSE 0)
      + (IF card.due <= today THEN 14 + Min2(10, today - card.due) ELSE 0)
      + Max2(0, 5 - card.goodStreak) * 2
      + Max2(0, 3 - card.interval)
      + (IF lastGrade = "bad" THEN 18 ELSE 0)
      + (IF lastGrade = "mid" THEN 8 ELSE 0)
      - (IF lastGrade = "good" THEN 4 ELSE 0)
      + (IF i = 0 THEN 8
         ELSE IF steps <= 1 THEN 0 - 12
         ELSE IF steps <= 3 THEN 0 - 6
         ELSE IF steps <= 7 THEN 0 - 2
         ELSE 0)

\* Variant: a sort by score alone, equal scores keep the order of the array.
RECURSIVE InsertByScore_NoTieBreak(_, _, _)
InsertByScore_NoTieBreak(sorted, id, score) ==
  IF sorted = <<>> THEN <<id>>
  ELSE IF score[Head(sorted)] >= score[id]
       THEN <<Head(sorted)>> \o InsertByScore_NoTieBreak(Tail(sorted), id, score)
       ELSE <<id>> \o sorted

\* scored.sort((a, b) => b.score - a.score || a.card.id.localeCompare(b.card.id))
RECURSIVE InsertByScore(_, _, _)
InsertByScore(sorted, id, score) ==
  IF sorted = <<>> THEN <<id>>
  ELSE IF \/ score[Head(sorted)] > score[id]
          \/ score[Head(sorted)] = score[id] /\ IdOrder(Head(sorted)) <= IdOrder(id)
       THEN <<Head(sorted)>> \o InsertByScore(Tail(sorted), id, score)
       ELSE <<id>> \o sorted

RECURSIVE SortByScore(_, _)
SortByScore(ids, score) ==
  IF ids = <<>> THEN <<>>
  ELSE InsertByScore(SortByScore(SubSeq(ids, 1, Len(ids) - 1), score),
                     ids[Len(ids)], score)

\* Variant: the avoided card is taken out of the queue and not put back.
AvoidCurrent_Drop(queue, avoidCurrentId) ==
  IF avoidCurrentId /= "none" /\ Len(queue) > 1 /\ queue[1] = avoidCurrentId
  THEN Tail(queue)
  ELSE queue

\* Variant: the avoided card moves behind one other card only.
AvoidCurrent_Behind1(queue, avoidCurrentId) ==
  IF avoidCurrentId /= "none" /\ Len(queue) > 1 /\ queue[1] = avoidCurrentId
  THEN <<queue[2], queue[1]>> \o SubSeq(queue, 3, Len(queue))
  ELSE queue

\* options.avoidCurrentId: the first card moves behind up to two others.
AvoidCurrent(queue, avoidCurrentId) ==
  IF avoidCurrentId /= "none" /\ Len(queue) > 1 /\ queue[1] = avoidCurrentId
  THEN LET rest == Tail(queue)
           k == Min2(2, Len(rest))
       IN  SubSeq(rest, 1, k) \o <<queue[1]>> \o SubSeq(rest, k + 1, Len(rest))
  ELSE queue

\* options.preserveCurrentId: the card moves to the front.
PreserveCurrent(queue, preserveCurrentId) ==
  IF \E i \in 2..Len(queue) : queue[i] = preserveCurrentId
  THEN <<preserveCurrentId>> \o SelectSeq(queue, LAMBDA id : id /= preserveCurrentId)
  ELSE queue

\* allCards: ids in the order of the cards array and their progress.
buildReviewQueue(ids, allCards, events, preserveCurrentId, avoidCurrentId, today) ==
  IF ids = <<>> THEN <<>>
  ELSE LET score == [id \in Range(ids) |-> cardScore(allCards[id], id, events, today)]
       IN  PreserveCurrent(AvoidCurrent(SortByScore(ids, score), avoidCurrentId),
                           preserveCurrentId)

\* queue[0]?.id
FirstId(queue) == IF queue = <<>> THEN "none" ELSE Head(queue)

\* mergeCardsWithProgress
mergeCardsWithProgress(baseCards, progressMap) ==
  [id \in Range(baseCards) |->
     IF id \in DOMAIN progressMap THEN progressMap[id] ELSE defaultProgress]

(***************************************************************************)
(* page.tsx: the Dashboard component of each client of the session code.   *)
(*   clients[c]: the React state (history, cards, current, lastSyncedAt),  *)
(*   syncInFlightRef, the run of fetch + applyRemoteSnapshot in progress   *)
(*   (sync) and the run of logReviewAction in progress (post).             *)
(*   The POST of client c is the request procs[c] of the server.           *)
(***************************************************************************)
\* The object when the clients open the dashboard: a snapshot left by an
\* earlier submit.
ClientStores ==
  {[exists |-> TRUE, raw |-> "json",
    data |-> [progress |-> EmptyMap, history |-> <<Ev(1, "c1", "bad")>>, updatedAt |-> 1]]}

InitDashboard ==
  /\ store \in ClientStores
  /\ version = 0
  /\ clock = 1
  /\ procs = [p \in Procs |-> IdleProc]
  /\ fetched = [status |-> "none", data |-> EmptySnapshot, error |-> NoError]
  /\ InitClients
  /\ InitAlgIdle

today == dayNumber(clock)

\* The mount effect, lines 418-452: fetchSessionSync is called.
Mount(c) ==
  /\ ~clients[c].mounted
  /\ clients' = [clients EXCEPT ![c].mounted = TRUE,
                                ![c].sync = [IdleSync EXCEPT !.pc = "fetch", !.kind = "mount"]]
  /\ UNCHANGED <<serverVars, quiet, algVars>>

\* refreshFromRemote(false) from the timer or the focus listener, lines
\* 381-388: the guard on syncInFlightRef, then fetchSessionSync is called;
\* lastSyncedAt is the value of the render that created the callback.
TimerRefresh(c) ==
  /\ clients[c].mounted
  /\ clients[c].sync.pc = "idle"
  /\ ~clients[c].syncInFlight
  /\ clients' = [clients EXCEPT ![c].syncInFlight = TRUE,
                                ![c].sync = [IdleSync EXCEPT !.pc = "fetch", !.kind = "timer",
                                                             !.seen = clients[c].lastSyncedAt]]
  /\ UNCHANGED <<serverVars, quiet, algVars>>

\* fetchSessionSync, lines 335-358: GET answers; the client sanitizes the
\* answer again.
FetchOk(c) ==
  /\ clients[c].sync.pc = "fetch"
  /\ \E error \in DownloadOutcomes : error = NoError \/ isMissingStorageError(error)
  /\ clients' = [clients EXCEPT ![c].sync.pc = "got",
                                ![c].sync.remote = sanitizeStoredPayload(StoredSnapshot)]
  /\ UNCHANGED <<serverVars, quiet, algVars>>

\* fetchSessionSync throws (GET answers 500).  The mount effect then sets the
\* empty history and loads the cards (lines 445-449); refreshFromRemote keeps
\* the state and clears syncInFlightRef (lines 394-398).
FetchFail(c) ==
  /\ ~quiet
  /\ clients[c].sync.pc = "fetch"
  /\ \E error \in DownloadOutcomes : error /= NoError /\ ~isMissingStorageError(error)
  /\ clients' =
       IF clients[c].sync.kind = "mount"
       THEN [clients EXCEPT ![c].history = <<>>,
                            ![c].lastSyncedAt = 0,
                            ![c].sync = [clients[c].sync EXCEPT !.pc = "load",
                                                                !.remote = EmptySnapshot,
                                                                !.preserve = "none"]]
       ELSE [clients EXCEPT ![c].sync = IdleSync, ![c].syncInFlight = FALSE]
  /\ UNCHANGED <<serverVars, quiet, algVars>>

\* remote.updatedAt || (last history ts), line 389; the mount effect passes
\* the fetched snapshot as it is.
remoteTs(remote) ==
  IF remote.updatedAt /= 0 THEN remote.updatedAt
  ELSE IF Len(remote.history) > 0 THEN remote.history[Len(remote.history)].ts
  ELSE 0

\* applyRemoteSnapshot up to its await, lines 319-328 (after the test of line
\* 391 for refreshFromRemote): history and lastSyncedAt are set and the load
\* of the cards starts.
ApplyRemote(c) ==
  LET sync == clients[c].sync
      snapshotUpdatedAt ==
        IF sync.kind = "mount" THEN sync.remote.updatedAt ELSE remoteTs(sync.remote)
      cleanHistory == sanitizeHistory(sync.remote.history)
      lastHistoryTs ==
        IF Len(cleanHistory) > 0 THEN cleanHistory[Len(cleanHistory)].ts ELSE 0
  IN  /\ sync.pc = "got"
      /\ clients' =
           IF sync.kind \in {"mount", "forced"} \/ remoteTs(sync.remote) > sync.seen
           THEN [clients EXCEPT ![c].history = cleanHistory,
                                ![c].lastSyncedAt = Max2(snapshotUpdatedAt, lastHistoryTs),
                                ![c].sync.pc = "load",
                                ![c].sync.preserve = clients[c].current]
           ELSE [clients EXCEPT ![c].sync = IdleSync, ![c].syncInFlight = FALSE]
      /\ UNCHANGED <<serverVars, quiet, algVars>>

\* loadSharedCards, lines 304-312: the cards arrive; cards, queue and current
\* are set from the progress map and the history the call was given.
CatalogLoadedFrom(c, baseCards) ==
  LET sync == clients[c].sync
      cleanHistory == sanitizeHistory(sync.remote.history)
      merged == mergeCardsWithProgress(baseCards, progressFromHistory(cleanHistory))
      orderedQueue ==
        buildReviewQueue(baseCards, merged, cleanHistory, sync.preserve, "none", today)
  IN  /\ sync.pc = "load"
      /\ clients' = [clients EXCEPT ![c].cards = merged,
                                    ![c].ids = baseCards,
                                    ![c].current = FirstId(orderedQueue),
                                    ![c].sync = IdleSync,
                                    ![c].syncInFlight =
                                      IF sync.kind = "mount" THEN @ ELSE FALSE]
      /\ UNCHANGED <<serverVars, quiet, algVars>>

CatalogLoaded(c) == CatalogLoadedFrom(c, Catalog)

\* loadSharedCards, lines 299-302: the query fails; nothing is set.
CatalogFailed(c) ==
  /\ ~quiet
  /\ clients[c].sync.pc = "load"
  /\ clients' = [clients EXCEPT ![c].sync = IdleSync,
                                ![c].syncInFlight =
                                  IF clients[c].sync.kind = "mount" THEN @ ELSE FALSE]
  /\ UNCHANGED <<serverVars, quiet, algVars>>

\* grade, lines 540-567: the schedule of the current card, the new history,
\* the new queue, and the call of logReviewAction.
Grade(c, g) ==
  LET cl == clients[c]
      reviewedAt == clock
      schedule == nextSchedule(cl.cards[cl.current], g, reviewedAt)
      nextCards == [cl.cards EXCEPT ![cl.current] = schedule]
      nextHistory == SliceLast(Append(cl.history, Ev(reviewedAt, cl.current, g)), HistoryCap)
      nextQueue == buildReviewQueue(cl.ids, nextCards, nextHistory, "none", cl.current, today)
  IN  /\ ~quiet
      /\ c \in Graders
      /\ cl.current /= "none"
      /\ cl.post = "none"
      /\ cl.grades < MaxGrades
      /\ clients' = [clients EXCEPT ![c].cards = nextCards,
                                    ![c].history = nextHistory,
                                    ![c].lastSyncedAt = reviewedAt,
                                    ![c].current = FirstId(nextQueue),
                                    ![c].post = "sent",
                                    ![c].body = [NoBody EXCEPT !.kind = "action",
                                                               !.cardId = cl.current,
                                                               !.grade = g,
                                                               !.ts = reviewedAt],
                                    ![c].grades = cl.grades + 1]
      /\ UNCHANGED <<serverVars, quiet, algVars>>

\* The POST of logReviewAction reaches the server.
ClientPostBegin(c) ==
  /\ clients[c].post = "sent"
  /\ procs[c].pc = "idle"
  /\ procs' = [procs EXCEPT ![c] = Begun(clients[c].body, clock)]
  /\ clients' = [clients EXCEPT ![c].post = "inflight"]
  /\ UNCHANGED <<store, version, clock, fetched, quiet, algVars>>

\* The answer of the POST, lines 373-376 and 568-572: refreshFromRemote(true)
\* after ok (it returns at once when syncInFlightRef is set), an alert after
\* an error.
PostAnswered(c) ==
  /\ clients[c].post = "inflight"
  /\ procs[c].pc = "done"
  /\ procs' = [procs EXCEPT ![c] = IdleProc]
  /\ clients' =
       IF procs[c].status = "ok" /\ ~clients[c].syncInFlight /\ clients[c].sync.pc = "idle"
       THEN [clients EXCEPT ![c].post = "none",
                            ![c].body = NoBody,
                            ![c].syncInFlight = TRUE,
                            ![c].sync = [IdleSync EXCEPT !.pc = "fetch", !.kind = "forced"]]
       ELSE [clients EXCEPT ![c].post = "none", ![c].body = NoBody]
  /\ UNCHANGED <<store, version, clock, fetched, quiet, algVars>>

\* logReviewAction throws: the POST answers with an error.
ClientPostDownloadError(c) == ~quiet /\ PostDownloadError(c)

ClientPostUploadError(c) == ~quiet /\ PostUploadError(c)

\* The users stop grading, and from then on no request fails.
StopGrading ==
  /\ ~quiet
  /\ quiet' = TRUE
  /\ UNCHANGED <<serverVars, clients, algVars>>

NextDashboard ==
  \/ Tick
  \/ StopGrading
  \/ \E c \in Clients : Mount(c)
  \/ \E c \in Clients : TimerRefresh(c)
  \/ \E c \in Clients : FetchOk(c)
  \/ \E c \in Clients : FetchFail(c)
  \/ \E c \in Clients : ApplyRemote(c)
  \/ \E c \in Clients : CatalogLoaded(c)
  \/ \E c \in Clients : CatalogFailed(c)
  \/ \E c \in Clients : \E g \in ClientGrades : Grade(c, g)
  \/ \E c \in Clients : ClientPostBegin(c)
  \/ \E c \in Clients : PostDownload(c)
  \/ \E c \in Clients : ClientPostDownloadError(c)
  \/ \E c \in Clients : PostUpload(c)
  \/ \E c \in Clients : ClientPostUploadError(c)
  \/ \E c \in Clients : PostAnswered(c)

SpecDashboard == InitDashboard /\ [][NextDashboard]_vars

\* One client on a deck of two cards.
ResumeCatalog == <<"c1", "c2">>

ResumeCatalogLoaded(c) == CatalogLoadedFrom(c, ResumeCatalog)

NextResume ==
  \/ Tick
  \/ \E c \in Graders : Mount(c)
  \/ \E c \in Graders : TimerRefresh(c)
  \/ \E c \in Graders : FetchOk(c)
  \/ \E c \in Graders : FetchFail(c)
  \/ \E c \in Graders : ApplyRemote(c)
  \/ \E c \in Graders : ResumeCatalogLoaded(c)
  \/ \E c \in Graders : CatalogFailed(c)
  \/ \E c \in Graders : \E g \in ClientGrades : Grade(c, g)
  \/ \E c \in Graders : ClientPostBegin(c)
  \/ \E c \in Graders : PostDownload(c)
  \/ \E c \in Graders : ClientPostDownloadError(c)
  \/ \E c \in Graders : PostUpload(c)
  \/ \E c \in Graders : ClientPostUploadError(c)
  \/ \E c \in Graders : PostAnswered(c)

SpecResume == InitDashboard /\ [][NextResume]_vars

\* The timer, the network and the server take their steps when they can.
SpecDashboardFair ==
  /\ SpecDashboard
  /\ \A c \in Clients :
       /\ WF_vars(Mount(c))
       /\ WF_vars(TimerRefresh(c))
       /\ WF_vars(FetchOk(c))
       /\ WF_vars(ApplyRemote(c))
       /\ WF_vars(CatalogLoaded(c))
       /\ WF_vars(ClientPostBegin(c))
       /\ WF_vars(PostDownload(c))
       /\ WF_vars(PostUpload(c))
       /\ WF_vars(PostAnswered(c))

(***************************************************************************)
(* Algebraic checks: the inputs are drawn by the initial state and one     *)
(* action applies the function.                                            *)
(***************************************************************************)
AlgEvents == {Ev(1, "c1", "good"), Ev(1, "c1", "bad"), Ev(1, "c2", "good"), Ev(2, "c1", "good")}

AlgHistories == {sanitizeHistory(h) : h \in SeqsUpTo(AlgEvents, MaxLen)}

HistorySnapshot(h) == [progress |-> EmptyMap, history |-> h, updatedAt |-> 0]

\* mergeHistory(A, B) and mergeHistory(B, A).
InitHist ==
  /\ InitServer
  /\ InitClients
  /\ inA \in {HistorySnapshot(h) : h \in AlgHistories}
  /\ inB \in {HistorySnapshot(h) : h \in AlgHistories}
  /\ inC = EmptySnapshot
  /\ out = <<>>
  /\ phase = "in"

ApplyMergeHistory ==
  /\ phase = "in"
  /\ out' = [ab |-> mergeHistory(inA.history, inB.history),
             ba |-> mergeHistory(inB.history, inA.history)]
  /\ phase' = "done"
  /\ UNCHANGED <<serverVars, clientVars, inA, inB, inC>>

NextHist == ApplyMergeHistory

SpecHist == InitHist /\ [][NextHist]_vars

\* merge(S, S): S is a sanitized snapshot, as both sides of POST's merge are.
SelfSnapshots ==
  [progress : {EmptyMap, [id \in {"c1"} |-> RowA], [id \in {"c1", "c2"} |-> RowB]},
   history : AlgHistories,
   updatedAt : 1..(MaxSnapUpdatedAt + 1)]

InitSelf ==
  /\ InitServer
  /\ InitClients
  /\ inA \in SelfSnapshots
  /\ inB = EmptySnapshot
  /\ inC = EmptySnapshot
  /\ out = <<>>
  /\ phase = "in"

ApplyMergeSelf ==
  /\ phase = "in"
  /\ out' = Merge(inA, inA)
  /\ phase' = "done"
  /\ UNCHANGED <<serverVars, clientVars, inA, inB, inC>>

NextSelf == ApplyMergeSelf

SpecSelf == InitSelf /\ [][NextSelf]_vars

\* merge(merge(A, B), C) and merge(A, merge(B, C)).
AssocEvents == {Ev(1, "c1", "good"), Ev(2, "c1", "bad"), Ev(2, "c2", "good")}

AssocSnapshots ==
  [progress : {EmptyMap, [id \in {"c1"} |-> RowA], [id \in {"c1"} |-> RowB]},
   history : SeqsUpTo(AssocEvents, MaxSnapLen),
   updatedAt : 1..MaxSnapUpdatedAt]

InitAssoc ==
  /\ InitServer
  /\ InitClients
  /\ inA \in AssocSnapshots
  /\ inB \in AssocSnapshots
  /\ inC \in AssocSnapshots
  /\ out = <<>>
  /\ phase = "in"

ApplyMergeAssoc ==
  /\ phase = "in"
  /\ out' = [left |-> Merge(Merge(inA, inB), inC),
             right |-> Merge(inA, Merge(inB, inC))]
  /\ phase' = "done"
  /\ UNCHANGED <<serverVars, clientVars, inA, inB, inC>>

NextAssoc == ApplyMergeAssoc

SpecAssoc == InitAssoc /\ [][NextAssoc]_vars

\* mergeProgress of a stored snapshot (inA) and a submitted one (inB): rows of
\* equal rank (RowA, RowB) and of a higher rank with a smaller interval
\* (RowC), histories with a last event of c1 at 1, at 2 or none, and either
\* side with the newer updatedAt.
RowC == Row(2, <<2, 1>>, 1, 3, 0)

PairSnapshots ==
  [progress : {EmptyMap, [id \in {"c1"} |-> RowA], [id \in {"c1"} |-> RowB],
               [id \in {"c1"} |-> RowC],
               [id \in {"c1", "c2"} |-> IF id = "c1" THEN RowB ELSE RowC]},
   history : SeqsUpTo(AssocEvents, MaxSnapLen),
   updatedAt : 1..(MaxSnapUpdatedAt + 1)]

InitPair ==
  /\ InitServer
  /\ InitClients
  /\ inA \in PairSnapshots
  /\ inB \in PairSnapshots
  /\ inC = EmptySnapshot
  /\ out = <<>>
  /\ phase = "pair"

ApplyMergePair ==
  /\ phase = "pair"
  /\ out' = Merge(inA, inB)
  /\ phase' = "paired"
  /\ UNCHANGED <<serverVars, clientVars, inA, inB, inC>>

NextPair == ApplyMergePair

SpecPair == InitPair /\ [][NextPair]_vars

\* progressFromHistory(E) and progressFromHistory(E'), E' a rearrangement of
\* E's array with the same timestamp at every position.
ReplayEvents == {Ev(1, "c1", "good"), Ev(1, "c1", "bad"), Ev(2, "c1", "good"), Ev(1, "c2", "mid")}

IsPermutation(s, t) ==
  /\ Len(s) = Len(t)
  /\ \A e \in Range(s) \cup Range(t) : Count(s, e) = Count(t, e)

SameTsOrder(s, t) ==
  /\ IsPermutation(s, t)
  /\ \A i \in 1..Len(s) : s[i].ts = t[i].ts

InitReplay ==
  /\ InitServer
  /\ InitClients
  /\ inA \in {HistorySnapshot(h) : h \in SeqsUpTo(ReplayEvents, MaxReplayLen)}
  /\ inB \in {HistorySnapshot(h) : h \in SeqsUpTo(ReplayEvents, MaxReplayLen)}
  /\ SameTsOrder(inA.history, inB.history)
  /\ inC = EmptySnapshot
  /\ out = <<>>
  /\ phase = "in"

ApplyReplay ==
  /\ phase = "in"
  /\ out' = [e |-> progressFromHistory(inA.history),
             r |-> progressFromHistory(inB.history)]
  /\ phase' = "done"
  /\ UNCHANGED <<serverVars, clientVars, inA, inB, inC>>

NextReplay == ApplyReplay

SpecReplay == InitReplay /\ [][NextReplay]_vars

\* nextSchedule applied step by step to one card state: the identity state
\* or a state with ease in [1.2, 3.0] and any reps, interval, due, goodStreak.
SchedEases == {<<6, 5>>, <<2, 1>>, <<14, 5>>, <<3, 1>>}

SchedCards ==
  {defaultProgress} \cup
  {Row(reps, ease, interval, due, goodStreak) :
     reps \in {0, 3}, ease \in SchedEases, interval \in {0, 7, 400},
     due \in {0, 20000}, goodStreak \in {0, 2, 12}}

\* Times of review: in day 0 and in day 2.
SchedTimes == {1, 2 * DAY_MS}

InitSched ==
  /\ InitServer
  /\ InitClients
  /\ inA \in SchedCards
  /\ inB = EmptySnapshot
  /\ inC = EmptySnapshot
  /\ out = [card |-> inA, prev |-> inA, grade |-> "none", steps |-> 0]
  /\ phase = "sched"

ApplyNextSchedule ==
  /\ phase = "sched"
  /\ out.steps < MaxSchedSteps
  /\ \E g \in Grades, reviewedAt \in SchedTimes :
       out' = [card |-> nextSchedule(out.card, g, reviewedAt),
               prev |-> out.card, grade |-> g, steps |-> out.steps + 1]
  /\ UNCHANGED <<serverVars, clientVars, inA, inB, inC, phase>>

NextSched == ApplyNextSchedule

SpecSched == InitSched /\ [][NextSched]_vars

\* Two histories of one card are replayed event by event, and the rows they
\* give are ranked against each other as mergeProgress ranks the remote and
\* the incoming row.  Each history is a run of good reviews, which a last bad
\* review may end.
RankSides == {"a", "b"}

InitRank ==
  /\ InitServer
  /\ InitClients
  /\ inA = EmptySnapshot
  /\ inB = EmptySnapshot
  /\ inC = EmptySnapshot
  /\ out = [side \in RankSides |-> defaultProgress]
  /\ phase = "rank"

\* progressFromHistory, lines 214-217: one more event of the card.
ReplayOneMore(side) ==
  /\ phase = "rank"
  /\ out[side].reps < MaxRankReps
  /\ out[side].goodStreak = out[side].reps
  /\ \E g \in {"good", "bad"} :
       out' = [out EXCEPT ![side] = nextSchedule(out[side], g, out[side].reps + 1)]
  /\ UNCHANGED <<serverVars, clientVars, inA, inB, inC, phase>>

NextRank == \E side \in RankSides : ReplayOneMore(side)

SpecRank == InitRank /\ [][NextRank]_vars

\* progressFromHistory of a history of one card that grows event by event
\* from the empty history, every event with any grade.
InitInterval ==
  /\ InitServer
  /\ InitClients
  /\ inA = EmptySnapshot
  /\ inB = EmptySnapshot
  /\ inC = EmptySnapshot
  /\ out = [history |-> <<>>, progress |-> progressFromHistory(<<>>)]
  /\ phase = "interval"

AppendAndReplay ==
  /\ phase = "interval"
  /\ Len(out.history) < MaxIntervalSteps
  /\ \E g \in Grades :
       LET events == Append(out.history, Ev(Len(out.history) + 1, "c1", g))
       IN  out' = [history |-> events, progress |-> progressFromHistory(events)]
  /\ UNCHANGED <<serverVars, clientVars, inA, inB, inC, phase>>

NextInterval == AppendAndReplay

SpecInterval == InitInterval /\ [][NextInterval]_vars

\* buildReviewQueue applied to a deck given in any order of the cards array:
\* never-reviewed and reviewed cards, a short history, both options, in a
\* day in which the reviewed cards are not yet due and in a day in which all
\* cards are long overdue.
QueueCards == {"c1", "c2", "c3"}

QueueRows == {defaultProgress, Row(2, <<2, 1>>, 7, 3, 2), Row(1, <<2, 1>>, 1, 1, 1)}

QueueEvents == {Ev(1, "c1", "bad"), Ev(1, "c2", "good"), Ev(2, "c3", "mid")}

QueueOptions == {"none", "c1", "c2"}

QueueDays == {0, 20}

Reverse(s) == [i \in 1..Len(s) |-> s[Len(s) + 1 - i]]

\* const scored = allCards.map(...): the score of every card of the array.
scored(ids, allCards, events, day) ==
  [id \in Range(ids) |-> cardScore(allCards[id], id, events, day)]

InitQueue ==
  /\ InitServer
  /\ InitClients
  /\ inA \in [ids : {s \in SeqsUpTo(QueueCards, MaxQueueCards) : NoDup(s)},
              cards : [QueueCards -> QueueRows],
              events : SeqsUpTo(QueueEvents, MaxQueueLen),
              preserveCurrentId : QueueOptions,
              avoidCurrentId : QueueOptions,
              today : QueueDays]
  /\ inB = EmptySnapshot
  /\ inC = EmptySnapshot
  /\ out = <<>>
  /\ phase = "queue"

ApplyBuildReviewQueue ==
  /\ phase = "queue"
  /\ out' = [queue |-> buildReviewQueue(inA.ids, inA.cards, inA.events,
                                        inA.preserveCurrentId, inA.avoidCurrentId,
                                        inA.today),
             reversed |-> buildReviewQueue(Reverse(inA.ids), inA.cards, inA.events,
                                           inA.preserveCurrentId, inA.avoidCurrentId,
                                           inA.today),
             score |-> scored(inA.ids, inA.cards, inA.events, inA.today)]
  /\ phase' = "queued"
  /\ UNCHANGED <<serverVars, clientVars, inA, inB, inC>>

NextQueue == ApplyBuildReviewQueue

SpecQueue == InitQueue /\ [][NextQueue]_vars

\* buildReviewQueue applied to a history longer than the lookback: no event
\* or one event of a card of the deck, then a run of events of another card
\* about as long as the lookback, then up to MaxLookbackLen events of the
\* cards of the deck.
LookbackCards == <<"c1", "c2">>

LookbackEvents == {Ev(1, "c1", "bad"), Ev(1, "c1", "good"), Ev(1, "c2", "mid")}

\* Lengths of the run: the events before it are just inside or just outside
\* the last QueueLookback events.
LookbackRuns == (QueueLookback - MaxLookbackLen)..QueueLookback

RunOfOthers(n) == [i \in 1..n |-> Ev(1, "c3", "good")]

LookbackDay == 20

InitLookback ==
  /\ InitServer
  /\ InitClients
  /\ inA \in {[cards |-> [id \in Range(LookbackCards) |->
                            IF id = "c1" THEN row ELSE defaultProgress],
               old |-> old, recent |-> recent,
               events |-> old \o RunOfOthers(run) \o recent] :
                row \in {defaultProgress, Row(2, <<2, 1>>, 7, 3, 2)},
                old \in {<<>>} \cup {<<e>> : e \in LookbackEvents},
                run \in LookbackRuns,
                recent \in SeqsUpTo(LookbackEvents, MaxLookbackLen)}
  /\ inB = EmptySnapshot
  /\ inC = EmptySnapshot
  /\ out = <<>>
  /\ phase = "lookback"

ApplyLookback ==
  /\ phase = "lookback"
  /\ out' = [queue |-> buildReviewQueue(LookbackCards, inA.cards, inA.events,
                                        "none", "none", LookbackDay),
             score |-> scored(LookbackCards, inA.cards, inA.events, LookbackDay)]
  /\ phase' = "looked"
  /\ UNCHANGED <<serverVars, clientVars, inA, inB, inC>>

NextLookback == ApplyLookback

SpecLookback == InitLookback /\ [][NextLookback]_vars

(***************************************************************************)
(* Properties.                                                             *)
(***************************************************************************)
Done(p) == procs[p].pc = "done" /\ procs[p].status = "ok"

Submitted(p) == Done(p) /\ ~procs[p].body.reset

ActionEvent(body) == Ev(body.ts, body.cardId, body.grade)

\* C1: no lost updates.  When both submits to the code have completed, the
\* stored history contains every event of both submitted histories (the
\* object did not exist before, and the union is within the cap).
C1_NoLostUpdates ==
  ( /\ \A p \in Procs : Submitted(p)
    /\ Cardinality(UNION {Range(procs[p].incoming.history) : p \in Procs}) <= HistoryCap )
  => \A p \in Procs :
       Range(procs[p].incoming.history) \subseteq Range(StoredSnapshot.history)

\* C2: a single review action is recorded.  When the POST of
\* {code, cardId, grade, ts} answers ok, the history stored by that POST
\* contains the event (ts, cardId, grade).
C2_ActionRecorded ==
  [][\A p \in Procs :
       ( /\ procs[p].pc = "upload"
         /\ procs'[p].pc = "done"
         /\ procs'[p].status = "ok"
         /\ procs[p].body.kind = "action" )
       => ActionEvent(procs[p].body) \in Range(store'.data.history)]_vars

\* C3: the same single review action submitted twice, one POST after the
\* other, is stored exactly once.
C3_ActionOnce ==
  ( /\ \A p \in Procs : Submitted(p) /\ procs[p].body.kind = "action"
    /\ procs[1].body = procs[2].body
    /\ \E p \in Procs : procs[p].began = 1 )
  => Count(StoredSnapshot.history, ActionEvent(procs[1].body)) = 1

C5_NoCardDropped ==
  \A p \in Procs :
    (procs[p].pc \in {"upload", "done"} /\ ~procs[p].body.reset)
    => (DOMAIN procs[p].remote.progress \cup DOMAIN procs[p].incoming.progress)
         \subseteq DOMAIN procs[p].payload.progress

\* C6: retrying a submit is idempotent.  When a request with the body of a
\* completed request begins after that request's upload and writes with no
\* other upload in between, the stored snapshot does not change.
C6_RetryIdempotent ==
  [][\A p, q \in Procs :
       ( /\ p /= q
         /\ Submitted(q)
         /\ procs[p].body = procs[q].body
         /\ procs[p].began = version
         /\ procs[p].pc = "upload"
         /\ procs'[p].pc = "done"
         /\ procs'[p].status = "ok" )
       => store' = store]_vars

\* A history as merge leaves it: sorted by timestamp, one event per key.
SortedByTs(h) == \A i, j \in 1..Len(h) : i < j => h[i].ts <= h[j].ts

Normalized(S) ==
  /\ SortedByTs(S.history)
  /\ NoDup(S.history)
  /\ Len(S.history) <= HistoryCap
  /\ \A i \in 1..Len(S.history) : S.history[i].ts <= S.updatedAt

\* C7 as stated: merge(S, S) = S for any snapshot S.
C7_MergeSelfAny == phase = "done" => out = inA

\* C7, amended: merge(S, S) = S for every snapshot S whose history is sorted
\* by timestamp, has no repeated key and no timestamp above S.updatedAt.
C7_MergeSelfNormalized == (phase = "done" /\ Normalized(inA)) => out = inA

\* Witness of C7: merge(S, S) was applied to such a snapshot with two events
\* and a progress row.
C7_Witness ==
  /\ phase = "done"
  /\ Normalized(inA)
  /\ Len(inA.history) = 2
  /\ inA.history[1].ts < inA.history[2].ts
  /\ DOMAIN inA.progress /= {}
  /\ out = inA

\* C8: mergeHistory(A, B) and mergeHistory(B, A) are the same sequence.
C8_MergeHistoryCommutes == phase = "done" => out.ab = out.ba

WithinCap == Cardinality(Range(inA.history) \cup Range(inB.history) \cup Range(inC.history)) <= HistoryCap

\* C9 as stated: below the cap, merge(merge(A, B), C) and
\* merge(A, merge(B, C)) have the same history, progress map and updatedAt.
C9_MergeAssociative == (phase = "done" /\ WithinCap) => out.left = out.right

\* C9, amended: below the cap, merge(merge(A, B), C) and
\* merge(A, merge(B, C)) have the same history and the same updatedAt.
C9_MergeAssociativeHistory ==
  (phase = "done" /\ WithinCap)
  => /\ out.left.history = out.right.history
     /\ out.left.updatedAt = out.right.updatedAt

\* Witness of C9: the two groupings were computed for three snapshots with
\* events, and they agree on the history and disagree on the progress map.
C9_Witness ==
  /\ phase = "done"
  /\ WithinCap
  /\ Len(out.left.history) >= 2
  /\ out.left.history = out.right.history
  /\ out.left.updatedAt = out.right.updatedAt
  /\ out.left.progress /= out.right.progress

\* C10: replay depends only on the timestamp order.  Replaying E and
\* replaying a rearrangement of E with the same timestamp order give the
\* same state map.
C10_ReplayOrderOnly == phase = "done" => out.e = out.r

EaseInRange(e) == 5 * e[1] >= 6 * e[2] /\ e[1] <= 3 * e[2]

\* C18: ease stays bounded.  From a card state with ease in [1.2, 3.0], and
\* so from the identity state, every state nextSchedule returns, for every
\* grade and after any number of steps, has ease in [1.2, 3.0].
C18_EaseBounded == phase = "sched" => EaseInRange(out.card.ease)

\* Witness of C18: four bad grades from the identity state reached the lower
\* bound (2 * 0.88^4 < 1.2).
C18_Witness ==
  /\ phase = "sched"
  /\ inA = defaultProgress
  /\ out.steps = 4
  /\ out.grade = "bad"
  /\ out.prev.ease = <<21296, 15625>>
  /\ out.card.ease = <<6, 5>>

\* The events of card id in a history are all good, and there are k of them.
GoodRun(h, id, k) ==
  /\ \A i \in 1..Len(h) : h[i].cardId = id => h[i].grade = "good"
  /\ Cardinality({i \in 1..Len(h) : h[i].cardId = id}) = k

\* C19: consecutive good grades on a card from the identity state give the
\* interval 2 after the first, 7 after the second and at least 30 after the
\* third, and goodStreak is 3 after the third.
C19_GoodStreakIntervals ==
  phase = "done" =>
    \A id \in Cards :
      /\ GoodRun(inA.history, id, 1) => out.e[id].interval = 2
      /\ GoodRun(inA.history, id, 2) => out.e[id].interval = 7
      /\ GoodRun(inA.history, id, 3) =>
           out.e[id].interval >= 30 /\ out.e[id].goodStreak = 3

\* Witness of C19: a history of three good grades on one card was replayed.
C19_Witness ==
  /\ phase = "done"
  /\ GoodRun(inA.history, "c1", 3)
  /\ out.e["c1"].interval = 32
  /\ out.e["c1"].goodStreak = 3

\* C20: a bad grade resets goodStreak to 0 and interval to 1, whatever the
\* state of the card before.
C20_BadResets ==
  (phase = "sched" /\ out.grade = "bad")
  => out.card.goodStreak = 0 /\ out.card.interval = 1

\* Witness of C20: bad was graded on a card with a streak of 12 and an
\* interval of 400 days.
C20_Witness ==
  /\ phase = "sched"
  /\ out.grade = "bad"
  /\ out.prev.goodStreak >= 12
  /\ out.prev.interval >= 365
  /\ out.card.goodStreak = 0
  /\ out.card.interval = 1

\* The cards of client c carry the fold of its history.
FoldOfHistory(c) ==
  LET map == progressFromHistory(clients[c].history)
  IN  \A id \in DOMAIN clients[c].cards :
        clients[c].cards[id] = (IF id \in DOMAIN map THEN map[id] ELSE defaultProgress)

\* C11: client card state is a fold of the client history.  Whenever no load
\* of the cards is pending, the progress of every card of a client equals
\* progressFromHistory(history) for that card, or the identity state.
C11_CardsFoldOfHistory ==
  \A c \in Clients : clients[c].sync.pc /= "load" => FoldOfHistory(c)

\* C12: updatedAt is a high-water mark.  In every stored snapshot, updatedAt
\* is at least the timestamp of every event of the history.
C12_UpdatedAtHighWater ==
  store.exists =>
    \A i \in 1..Len(StoredSnapshot.history) :
      StoredSnapshot.history[i].ts <= StoredSnapshot.updatedAt

\* Every client holds the stored history.
Converged == \A c \in Clients : clients[c].history = StoredSnapshot.history

\* C13: eventual convergence.  Once the users have stopped grading and no
\* later fetch or submit fails, the periodic refreshes bring every client's
\* history to the stored history, for good.
C13_EventualConvergence == <>[](quiet => Converged)

\* C14: reset clears the scope.  The snapshot stored by a POST with reset set
\* has an empty history and an empty progress map.
C14_ResetClears ==
  [][\A p \in Procs :
       ( /\ procs[p].pc = "upload"
         /\ procs'[p].pc = "done"
         /\ procs'[p].status = "ok"
         /\ procs[p].body.reset )
       => /\ store'.data.history = <<>>
          /\ store'.data.progress = EmptyMap]_vars

\* C15: a failed submit changes nothing.  The step in which a POST answers
\* with an error leaves the stored object as it was, and the object changes
\* only in the upload step of a POST that answers ok: a request that fails
\* has written nothing.
C15_FailedSubmitNoChange ==
  [][/\ \A p \in Procs :
          (procs[p].status /= "error" /\ procs'[p].status = "error")
          => store' = store /\ version' = version
     /\ store' /= store =>
          \E p \in Procs : procs[p].pc = "upload" /\ procs'[p].status = "ok"]_vars

\* Witness of C15: a POST has failed on a code whose stored snapshot has a
\* history, and the snapshot is still the one the last upload wrote.
C15_Witness ==
  \E p, q \in Procs :
    /\ procs[p].status = "error"
    /\ Done(q)
    /\ version = 1
    /\ store.exists
    /\ store.data = procs[q].payload
    /\ Len(store.data.history) > 0

\* C16: the fetch of a code whose object is missing, empty or not valid JSON
\* answers ok with the empty snapshot, never with an error.
C16_FetchMissingEmpty ==
  [][( /\ fetched.status = "none"
       /\ fetched'.status /= "none"
       /\ fetched'.error \in MissingErrors \cup {NoError}
       /\ ~store.exists \/ store.raw \in {"empty", "invalid"} )
     => fetched'.status = "ok" /\ fetched'.data = EmptySnapshot]_vars

\* Witness of C16: the fetch of a code with no object has answered ok with the
\* empty snapshot after the storage answered "Object not found", status 400.
C16_Witness ==
  /\ ~store.exists
  /\ fetched.status = "ok"
  /\ fetched.error.statusCode = "400"
  /\ fetched.data = EmptySnapshot

\* The largest timestamp of a history.
MaxTs(h) == SetMax({h[i].ts : i \in 1..Len(h)})

\* A non-reset POST whose body has a history of 3 distinct events writes
\* after having read no stored snapshot.
ThreeEventSubmit(p) ==
  /\ procs[p].pc = "upload"
  /\ procs'[p].pc = "done"
  /\ procs'[p].status = "ok"
  /\ ~procs[p].body.reset
  /\ procs[p].remote = EmptySnapshot
  /\ Len(procs[p].body.history) = 3
  /\ NoDup(procs[p].body.history)

\* C17 as stated: the stored history is exactly the 3 events and the stored
\* updatedAt is the largest timestamp among them.
C17_ThreeEvents ==
  [][\A p \in Procs :
       ThreeEventSubmit(p)
       => /\ Len(store'.data.history) = 3
          /\ Range(store'.data.history) = Range(procs[p].body.history)
          /\ store'.data.updatedAt = MaxTs(procs[p].body.history)]_vars

\* C17, amended: the stored history is exactly the 3 events, in timestamp
\* order, and the stored updatedAt is the larger of the submitted updatedAt
\* (the time of the request when the body has none) and the largest
\* timestamp among them; it is that largest timestamp when the body's
\* updatedAt is positive and not above it.
C17_ThreeEventsMaxUpdatedAt ==
  [][\A p \in Procs :
       ThreeEventSubmit(p)
       => /\ Len(store'.data.history) = 3
          /\ Range(store'.data.history) = Range(procs[p].body.history)
          /\ SortedByTs(store'.data.history)
          /\ store'.data.updatedAt =
               Max2(procs[p].incoming.updatedAt, MaxTs(procs[p].body.history))
          /\ (procs[p].body.updatedAt > 0
                => procs[p].incoming.updatedAt = procs[p].body.updatedAt)
          /\ (procs[p].body.updatedAt = 0
                => procs[p].incoming.updatedAt \in 1..clock)
          /\ (procs[p].body.updatedAt \in 1..MaxTs(procs[p].body.history)
                => store'.data.updatedAt = MaxTs(procs[p].body.history))]_vars

\* Witness of C17: three distinct events, submitted out of timestamp order
\* with updatedAt 1 to a code with no object, are stored in timestamp order
\* with updatedAt 2, the largest timestamp.
C17_Witness ==
  \E p \in Procs :
    /\ Submitted(p)
    /\ procs[p].remote = EmptySnapshot
    /\ Len(procs[p].body.history) = 3
    /\ NoDup(procs[p].body.history)
    /\ procs[p].body.history[1].ts = 2
    /\ procs[p].body.updatedAt = 1
    /\ store.data = procs[p].payload
    /\ store.data.updatedAt = 2

(***************************************************************************)
(* The study queue.                                                        *)
(***************************************************************************)
Queued == phase = "queued"

\* C21: buildReviewQueue returns every card of the input array exactly once,
\* whatever the history, the day and the avoid/preserve options are; a card
\* with reps = 0 is in the queue like any other.
C21_QueueIsPermutation ==
  Queued =>
    /\ Len(out.queue) = Len(inA.ids)
    /\ \A id \in Range(inA.ids) : Count(out.queue, id) = 1
    /\ \A id \in Range(inA.ids) :
         inA.cards[id].reps = 0 => id \in Range(out.queue)

\* Three cards, one of them never reviewed, the avoided card ranks first and
\* the preserved card is another one: both options rearrange the queue.
C21_Witness ==
  /\ Queued
  /\ Len(inA.ids) = 3
  /\ \E id \in Range(inA.ids) : inA.cards[id].reps = 0
  /\ \E id \in Range(inA.ids) : inA.cards[id].reps > 0
  /\ inA.avoidCurrentId = "c1"
  /\ inA.preserveCurrentId = "c2"
  /\ \A id \in {"c2", "c3"} : out.score["c1"] > out.score[id]
  /\ out.score["c3"] > out.score["c2"]
  /\ out.queue = <<"c2", "c3", "c1">>

\* The card that ranks first: no other card has a higher score, or an equal
\* score and a smaller id.
RanksFirst(id) ==
  \A other \in Range(inA.ids) \ {id} :
    \/ out.score[id] > out.score[other]
    \/ out.score[id] = out.score[other] /\ IdOrder(id) < IdOrder(other)

\* avoidCurrentId applies when it names the first card of a queue of two or
\* more cards, preserveCurrentId when it names a card that is not the first.
AvoidApplies ==
  /\ inA.avoidCurrentId \in Range(inA.ids)
  /\ Len(inA.ids) > 1
  /\ RanksFirst(inA.avoidCurrentId)

PreserveApplies ==
  /\ inA.preserveCurrentId \in Range(inA.ids)
  /\ ~RanksFirst(inA.preserveCurrentId)

SortedByScore(queue, score) ==
  \A i, j \in 1..Len(queue) :
    i < j => \/ score[queue[i]] > score[queue[j]]
             \/ /\ score[queue[i]] = score[queue[j]]
                /\ IdOrder(queue[i]) < IdOrder(queue[j])

\* C22: when neither avoidCurrentId nor preserveCurrentId applies, the queue
\* is sorted by descending score and, among equal scores, by ascending id,
\* and the reversed cards array gives the same queue.
C22_QueueTotalOrder ==
  (Queued /\ ~AvoidApplies /\ ~PreserveApplies) =>
    /\ SortedByScore(out.queue, out.score)
    /\ out.reversed = out.queue

\* Three cards given in an order that is not the order of the queue, two of
\* them with the same score, and both options given without applying.
C22_Witness ==
  /\ Queued
  /\ inA.ids = <<"c3", "c2", "c1">>
  /\ out.score["c2"] = out.score["c3"]
  /\ out.score["c1"] < out.score["c2"]
  /\ inA.avoidCurrentId = "c1"
  /\ inA.preserveCurrentId = "c2"
  /\ out.queue = <<"c2", "c3", "c1">>

\* What the card's score owes to card.due: the score less the score of the
\* same card with a due day after today.
OverdueBonus(id) ==
  out.score[id]
  - cardScore([inA.cards[id] EXCEPT !.due = inA.today + 1], id, inA.events, inA.today)

\* C29: the overdue bonus 14 + min(10, today - due) is in the score of a
\* card only when reps > 0 and due <= today; a card with reps = 0 has the
\* new-card bonus of 24 and no overdue bonus.
C29_OverdueOnlyReviewed ==
  Queued =>
    \A id \in Range(inA.ids) :
      LET card == inA.cards[id]
      IN  OverdueBonus(id) =
            IF card.reps > 0 /\ card.due <= inA.today
            THEN 14 + Min2(10, inA.today - card.due)
            ELSE 0

\* The place of the card in the queue.
IndexOf(queue, id) == CHOOSE i \in 1..Len(queue) : queue[i] = id

Others(queue, id) == SelectSeq(queue, LAMBDA other : other /= id)

AvoidedBehind ==
  LET id == inA.avoidCurrentId
  IN  /\ IndexOf(out.queue, id) = (IF Len(out.queue) = 2 THEN 2 ELSE 3)
      /\ SortedByScore(Others(out.queue, id), out.score)
      /\ out.queue[1] /= id

ValidEvent(event) == event.ts > 0 /\ event.grade \in Grades

\* C23: every event of the stored history and of a fetched history has a
\* positive timestamp and a grade in {bad, mid, good}; the incoming history
\* of a request is what is left of the body's array when the items that fail
\* this are dropped (the last HistoryCap of them).
C23_EventsValidated ==
  /\ \A event \in Range(StoredSnapshot.history) \cup Range(fetched.data.history) :
       ValidEvent(event)
  /\ \A p \in Procs :
       procs[p].pc \in {"download", "upload"} =>
         procs[p].incoming.history =
           SliceLast(SelectSeq(procs[p].body.history, ValidEvent), HistoryCap)

\* C24: no event of the stored history, of a fetched history, of the two
\* histories given to the merge or of the merged history is an event of a
\* card that is not in the deck.
C24_KnownCardsOnly ==
  /\ \A event \in Range(StoredSnapshot.history) \cup Range(fetched.data.history) :
       event.cardId \in Cards
  /\ \A p \in Procs :
       \A event \in Range(procs[p].incoming.history) \cup Range(procs[p].remote.history)
                     \cup Range(procs[p].payload.history) :
         event.cardId \in Cards

\* C28: the stored history has at most HistoryCap events, and when the stored
\* events and the events submitted by a request that has answered are more
\* than HistoryCap distinct events, the events stored are HistoryCap events of
\* them and no event left out is later than an event kept.
C28_NewestKept ==
  /\ Len(StoredSnapshot.history) <= HistoryCap
  /\ \A p \in Procs :
       Submitted(p) =>
         LET union == Range(procs[p].remote.history)
                        \cup Range(SelectSeq(procs[p].body.history, IsEvent))
             kept == Range(StoredSnapshot.history)
         IN  Cardinality(union) > HistoryCap =>
               /\ kept \subseteq union
               /\ Cardinality(kept) = HistoryCap
               /\ \A dropped \in union \ kept : \A event \in kept :
                    dropped.ts <= event.ts

(***************************************************************************)
(* The merge of two progress maps.                                         *)
(***************************************************************************)
Paired == phase = "paired"

\* The timestamp of the side's last event for the card, 0 without one.
LastEventTs(history, id) ==
  MaxTs(SelectSeq(history, LAMBDA event : event.cardId = id))

\* What a progress map has for the card: its row, or nothing.
RowOf(map, id) == IF id \in DOMAIN map THEN <<map[id]>> ELSE <<>>

PairIds == DOMAIN inA.progress \cup DOMAIN inB.progress

\* C25: for every card, when the last event of the card in one side's
\* history is strictly later than in the other side's history (0 without an
\* event), the merged map has for the card exactly what that side's map has,
\* whatever the ranks of the rows and the two updatedAt are.
C25_NewerEventWins ==
  Paired =>
    \A id \in PairIds :
      LET tsRemote == LastEventTs(inA.history, id)
          tsIncoming == LastEventTs(inB.history, id)
      IN  /\ tsIncoming > tsRemote => RowOf(out.progress, id) = RowOf(inB.progress, id)
          /\ tsRemote > tsIncoming => RowOf(out.progress, id) = RowOf(inA.progress, id)

\* The submitted side has the later event of c1 and the row of lower rank,
\* the stored side the newer updatedAt: the merged row is the submitted one.
C25_Witness ==
  /\ Paired
  /\ inA.history = <<Ev(1, "c1", "good")>>
  /\ inB.history = <<Ev(2, "c1", "bad")>>
  /\ inA.progress = [id \in {"c1"} |-> RowC]
  /\ inB.progress = [id \in {"c1"} |-> RowA]
  /\ inA.updatedAt > inB.updatedAt
  /\ out.progress["c1"] = RowA

Rank(row) == row.reps * 100000 + row.goodStreak * 1000 + row.interval

\* C26: when both sides have a row for the card and the same last-event
\* timestamp for it, the merged row is the row of higher rank; when the ranks
\* are equal it is the row of the side with the newer updatedAt.
C26_RankThenUpdatedAt ==
  Paired =>
    \A id \in DOMAIN inA.progress \cap DOMAIN inB.progress :
      LastEventTs(inA.history, id) = LastEventTs(inB.history, id) =>
        LET rowRemote == inA.progress[id]
            rowIncoming == inB.progress[id]
        IN  /\ id \in DOMAIN out.progress
            /\ Rank(rowIncoming) > Rank(rowRemote) => out.progress[id] = rowIncoming
            /\ Rank(rowRemote) > Rank(rowIncoming) => out.progress[id] = rowRemote
            /\ (Rank(rowRemote) = Rank(rowIncoming) /\ inB.updatedAt > inA.updatedAt)
                 => out.progress[id] = rowIncoming
            /\ (Rank(rowRemote) = Rank(rowIncoming) /\ inA.updatedAt > inB.updatedAt)
                 => out.progress[id] = rowRemote

\* Both sides have the same event of c1; the stored row has the higher rank,
\* the smaller interval and the older updatedAt, and it is the merged row.
C26_Witness ==
  /\ Paired
  /\ inA.history = <<Ev(1, "c1", "good")>>
  /\ inB.history = <<Ev(1, "c1", "good")>>
  /\ inA.progress = [id \in {"c1"} |-> RowC]
  /\ inB.progress = [id \in {"c1"} |-> RowA]
  /\ inA.updatedAt < inB.updatedAt
  /\ out.progress["c1"] = RowC

(***************************************************************************)
(* The updatedAt of the stored snapshot.                                   *)
(***************************************************************************)
\* The timestamp of the last event of a history, 0 for the empty history.
LastTs(history) == IF history = <<>> THEN 0 ELSE history[Len(history)].ts

\* C27: the updatedAt stored by a non-reset submit is the maximum of the
\* updatedAt of the snapshot it read, the incoming updatedAt and the
\* timestamp of the last event of the merged history; when no upload came
\* between its read and its write, the snapshot it read is the previously
\* stored one and the stored updatedAt does not decrease.
C27_UpdatedAtMax ==
  [][\A p \in Procs :
       ( /\ procs[p].pc = "upload"
         /\ procs'[p].pc = "done"
         /\ procs'[p].status = "ok"
         /\ ~procs[p].body.reset )
       => /\ store'.data.updatedAt =
               Max2(Max2(procs[p].remote.updatedAt, procs[p].incoming.updatedAt),
                    LastTs(store'.data.history))
          /\ (procs[p].read = version =>
                /\ store'.data.updatedAt =
                     Max2(Max2(StoredSnapshot.updatedAt, procs[p].incoming.updatedAt),
                          LastTs(store'.data.history))
                /\ store'.data.updatedAt >= StoredSnapshot.updatedAt)]_vars

\* A non-reset submit has written right after its read of a snapshot whose
\* updatedAt is above the incoming updatedAt and above every event: the
\* stored updatedAt is the one it read.
C27_Witness ==
  \E p \in Procs :
    /\ Submitted(p)
    /\ procs[p].read + 1 = version
    /\ procs[p].read > 0
    /\ procs[p].remote.updatedAt > procs[p].incoming.updatedAt
    /\ procs[p].remote.updatedAt > LastTs(procs[p].payload.history)
    /\ store.data = procs[p].payload
    /\ store.data.updatedAt = procs[p].remote.updatedAt

(***************************************************************************)
(* The card shown while a remote snapshot is applied.                      *)
(***************************************************************************)
\* C31: the end of applyRemoteSnapshot (loadSharedCards has set the cards,
\* the queue and the current card) leaves the card shown on screen in place
\* when that card is a card of the deck.
C31_CurrentKeptOnApply ==
  [][\A c \in Clients :
       ( /\ clients[c].sync.pc = "load"
         /\ clients'[c].sync.pc = "idle"
         /\ clients[c].current \in Range(ResumeCatalog) )
       => clients'[c].current = clients[c].current]_vars

(***************************************************************************)
(* The lookback of the study queue.                                        *)
(***************************************************************************)
Looked == phase = "looked"

\* The score of the claim for a card and the last QueueLookback events of
\* the history: the score of the card with an empty history, less its bonus
\* of 8 for a card not seen, plus the adjustment for the grade of the card's
\* last event in the window and for the steps since that event.
ClaimedScore(id, window) ==
  LET seen == {i \in 1..Len(window) : window[i].cardId = id}
      last == SetMax(seen)
      steps == Len(window) - last
      grade == IF seen = {} THEN "none" ELSE window[last].grade
  IN  cardScore(inA.cards[id], id, <<>>, LookbackDay) - 8
      + (CASE grade = "bad" -> 18 [] grade = "mid" -> 8 [] grade = "good" -> 0 - 4
           [] OTHER -> 0)
      + (IF seen = {} THEN 8
         ELSE IF steps <= 1 THEN 0 - 12
         ELSE IF steps <= 3 THEN 0 - 6
         ELSE IF steps <= 7 THEN 0 - 2
         ELSE 0)

\* C32: the score of a card has +18, +8 or -4 for the grade of the card's
\* most recent event among the last 500 events of the history and nothing
\* when the card has no event among them, and the queue is the queue of the
\* last 500 events alone.
C32_BoundedLookback ==
  Looked =>
    LET window == SliceLast(inA.events, QueueLookback)
    IN  /\ \A id \in Range(LookbackCards) : out.score[id] = ClaimedScore(id, window)
        /\ out.queue = buildReviewQueue(LookbackCards, inA.cards, window,
                                        "none", "none", LookbackDay)

\* The only event of c1 is a bad grade just before the last 500 events, the
\* last of which is an event of c2: c1 is scored as a card not seen.
C32_Witness ==
  /\ Looked
  /\ inA.old = <<Ev(1, "c1", "bad")>>
  /\ inA.recent = <<Ev(1, "c2", "mid")>>
  /\ Len(inA.events) = QueueLookback + 1
  /\ inA.cards["c1"] = defaultProgress
  /\ out.score["c1"] = cardScore(inA.cards["c1"], "c1", <<>>, LookbackDay)
  /\ out.queue = <<"c1", "c2">>

(***************************************************************************)
(* The replay of a history, card by card.                                  *)
(***************************************************************************)
EventsOf(history, id) == SelectSeq(history, LAMBDA event : event.cardId = id)

\* C33: the state of every card in progressFromHistory(E) is its state in
\* the replay of the card's own events of E, in the same order; the events
\* of other cards do not change it.
C33_ReplayPerCard ==
  phase = "done" =>
    \A id \in Cards :
      LET own == progressFromHistory(EventsOf(inA.history, id))
      IN  /\ id \in DOMAIN out.e <=> id \in DOMAIN own
          /\ id \in DOMAIN out.e => out.e[id] = own[id]

\* Two events of c1 with an event of c2 between them.
C33_Witness ==
  /\ phase = "done"
  /\ inA.history = <<Ev(1, "c1", "good"), Ev(1, "c2", "mid"), Ev(2, "c1", "good")>>
  /\ out.e["c1"].reps = 2
  /\ out.e["c1"].goodStreak = 2
  /\ out.e["c2"].reps = 1

\* C34: progressFromHistory(E) is progressFromHistory of E without the
\* repeated occurrences of an identical (ts, cardId, grade) event.
C34_ReplayIgnoresDuplicates ==
  phase = "done" => out.e = progressFromHistory(MapValues(inA.history, <<>>))

\* C35: in the replay of any history from the identity state, every card
\* with at least one event has an interval between 1 and 365.
C35_IntervalBounded ==
  phase = "interval" =>
    \A id \in DOMAIN out.progress :
      1 <= out.progress[id].interval /\ out.progress[id].interval <= 365

\* Five good grades in a row: the fifth interval, 783 + 60 without the cap,
\* is 365.
C35_Witness ==
  /\ phase = "interval"
  /\ Len(out.history) = 5
  /\ \A i \in 1..5 : out.history[i].grade = "good"
  /\ out.progress["c1"].goodStreak = 5
  /\ out.progress["c1"].interval = 365

(***************************************************************************)
(* C36: every row of a stored or fetched snapshot is in its domain, and a  *)
(* row with a number that is not finite is dropped alone.                  *)
(***************************************************************************)
InDomain(row) ==
  /\ row.reps \in Nat
  /\ row.interval \in Nat
  /\ row.due \in Nat
  /\ row.goodStreak \in Nat
  /\ EaseInRange(row.ease)

AllInDomain(progress) == \A id \in DOMAIN progress : InDomain(progress[id])

FiniteIds(progress) == {id \in DOMAIN progress : AllFinite(progress[id])}

\* C36: in every stored and every fetched snapshot each progress row has
\* integers reps, interval, due and goodStreak that are at least 0 and an
\* ease between 1.2 and 3; the rows a request contributes are exactly the
\* rows of its body whose five numbers are finite, so a row with a number
\* that is not finite is dropped and the other rows of the body are kept.
C36_StoredRowsInDomain ==
  /\ AllInDomain(store.data.progress)
  /\ AllInDomain(StoredSnapshot.progress)
  /\ AllInDomain(fetched.data.progress)
  /\ \A p \in Procs :
       procs[p].body.kind = "bulk" =>
         /\ DOMAIN procs[p].incoming.progress = FiniteIds(procs[p].body.progress)
         /\ AllInDomain(procs[p].incoming.progress)
         /\ AllInDomain(procs[p].payload.progress)

\* A body with a row of fractions and negative numbers for c1 and a row whose
\* reps is NaN for c2 has been stored: c1 is floored and clamped, c2 is absent.
C36_Witness ==
  /\ procs[1].status = "ok"
  /\ procs[1].body.progress = [id \in Cards |-> IF id = "c1" THEN RowRawFraction ELSE RowRawNaN]
  /\ store.data.progress = [id \in {"c1"} |-> Row(2, <<3, 1>>, 0, 0, 1)]
  /\ fetched.status = "ok"
  /\ fetched.data.progress = store.data.progress

(***************************************************************************)
(* C37: the rank of a replayed row and its number of reviews.              *)
(***************************************************************************)
ReplayResult(row) == row.goodStreak <= row.reps /\ row.interval <= 365

\* C37: for any two rows that are results of replay (goodStreak <= reps,
\* interval <= 365), a higher progressRank means at least as many reviews:
\* progressRank(x) > progressRank(y) implies x.reps >= y.reps.
C37_HigherRankMoreReps ==
  phase = "rank" =>
    \A x, y \in RankSides :
      (ReplayResult(out[x]) /\ ReplayResult(out[y]) /\
       progressRank(out[x]) > progressRank(out[y]))
        => out[x].reps >= out[y].reps

(***************************************************************************)
(* C38: the single-flight guard of refreshFromRemote.                      *)
(***************************************************************************)
RefreshesInFlight == {k \in RefreshCallers : out.pc[k] /= "idle"}

OneRefreshAtATime ==
  /\ Cardinality(RefreshesInFlight) <= 1
  /\ out.syncInFlight <=> RefreshesInFlight /= {}

\* C38: at most one call of refreshFromRemote is between its fetch and its
\* end at any moment, the flag is set exactly while one is, so it is false
\* again when the call has ended, after a fetch that answered as after one
\* that threw, and a set flag is always cleared later: no later poll or
\* focus refresh is blocked for ever.
C38_SingleFlight ==
  /\ [](phase = "refresh" => OneRefreshAtATime)
  /\ ((phase = "refresh" /\ out.syncInFlight) ~> ~out.syncInFlight)

\* The timer's refresh is applying a snapshot, the focus refresh found the
\* flag set and returned, and the last forced refresh ended in the catch.
C38_Witness ==
  /\ phase = "refresh"
  /\ out.syncInFlight
  /\ out.pc["timer"] = "apply"
  /\ out.last["focus"] = "returned"
  /\ out.last["forced"] = "caught"

====
